---- MODULE Spec2Model ----
(***************************************************************************)
(* A model of the topology superimposer of TIES20                          *)
(* (src/ties/topology_superimposer.py).                                    *)
(*                                                                         *)
(* Atoms are integers: the atoms of the left ligand are 1..Len(M.L), the   *)
(* atoms of the right ligand are 11..10+Len(M.R).  Python object identity  *)
(* of AtomNode is equality of these integers.  A matched pair is <<l, r>>. *)
(* Atom names are sequences of character codes, compared as Python         *)
(* compares strings.  Bond orders are sequences of one-character strings   *)
(* (the mol2 bond orders "1", "2", "ar").  Charges are integers in units   *)
(* of 1/120000 e (so that the averages and the shares computed by          *)
(* redistribute_charges are integers), positions are integer triples.      *)
(*                                                                         *)
(* Restrictions of the model, all of them stated where they are made:      *)
(*  - the ligands come from the catalogue Mols; every ligand graph of the  *)
(*    catalogue is a cactus (no two rings share a bond), for which the     *)
(*    cycle basis of networkx is unique;                                   *)
(*  - iteration over a Python set of atoms or bonds is in ascending or in  *)
(*    descending order of the atom numbers, chosen once (setOrder);         *)
(*  - the ligands carry no MDAnalysis universe (can_use_mda is False), so  *)
(*    align_ligands_using_matched is rmsd();                               *)
(*  - floating point rounding is not modelled.                             *)
(***************************************************************************)
EXTENDS Integers, Sequences, FiniteSets, TLC

VARIABLES mol, setOrder, atype, charge, suptops, pc, seeds, opts, raised, nops

vars == <<mol, setOrder, atype, charge, suptops, pc, seeds, opts, raised, nops>>

-----------------------------------------------------------------------------
(* Python's ord() on the characters used in atom names and elements.       *)
code(c) ==
    CASE c = "1" -> 49 [] c = "2" -> 50 [] c = "3" -> 51 [] c = "4" -> 52
      [] c = "5" -> 53 [] c = "C" -> 67 [] c = "H" -> 72 [] c = "N" -> 78
      [] OTHER -> 79

chC == "C"
chH == "H"
chN == "N"
chO == "O"
Digits == <<"1", "2", "3", "4", "5">>

\* AtomNode.__init__ and set_position, as get_atoms_bonds_from_mol2 calls
\* them: the atoms it makes have use_general_type = True
AtomNode(name, atom_type, q, position) ==
    [name |-> name, type |-> atom_type, charge |-> q, position |-> position,
     use_general_type |-> TRUE]

\* element_from_type, restricted to the atom types of the catalogue
element_from_type ==
    [t \in {"C", "CA", "CB", "CC", "CD", "C3", "H", "HC", "N", "O", "OH"} |->
        CASE t \in {"C", "CA", "CB", "CC", "CD", "C3"} -> "C"
          [] t \in {"H", "HC"} -> "H"
          [] t = "N" -> "N"
          [] OTHER -> "O"]

\* bond orders as mol2 writes them
o1 == <<"1">>
o2 == <<"2">>
oar == <<"a", "r">>

\* the names of the atoms: "C1", "C2", ... on the left, "C11", "C12", ... on the right
Nm(letter, k) == <<letter, Digits[k]>>
NmR(letter, k) == <<letter, "1", Digits[k]>>

-----------------------------------------------------------------------------
(* The catalogue of ligand pairs.  LB and RB are the bonds, <<a, b, order>>.*)

\* the example of extract_best_suptop (lines 2703-2710): C-N(-O)(-O) twice
MolNitro ==
    [L |-> <<AtomNode(Nm(chC, 1), "C", 0, <<1, 1, 0>>), AtomNode(Nm(chN, 1), "N", 0, <<1, 2, 0>>),
             AtomNode(Nm(chO, 1), "O", 0, <<1, 3, 0>>), AtomNode(Nm(chO, 2), "O", 0, <<2, 3, 0>>)>>,
     R |-> <<AtomNode(NmR(chC, 1), "C", 0, <<1, 1, 0>>), AtomNode(NmR(chN, 1), "N", 0, <<1, 2, 0>>),
             AtomNode(NmR(chO, 1), "O", 0, <<1, 3, 0>>), AtomNode(NmR(chO, 2), "O", 0, <<2, 3, 0>>)>>,
     LB |-> {<<1, 2, o1>>, <<2, 3, o1>>, <<2, 4, o2>>},
     RB |-> {<<11, 12, o1>>, <<12, 13, o1>>, <<12, 14, o2>>}]

\* a three-ring with a pendant atom against a four-ring
MolTriSquare ==
    [L |-> <<AtomNode(Nm(chC, 1), "C", 0, <<0, 0, 0>>), AtomNode(Nm(chC, 2), "C", 0, <<1, 0, 0>>),
             AtomNode(Nm(chC, 3), "C", 0, <<0, 1, 0>>), AtomNode(Nm(chC, 4), "C", 0, <<0, 0, 1>>)>>,
     R |-> <<AtomNode(NmR(chC, 1), "C", 0, <<0, 0, 0>>), AtomNode(NmR(chC, 2), "C", 0, <<1, 0, 0>>),
             AtomNode(NmR(chC, 3), "C", 0, <<0, 1, 0>>), AtomNode(NmR(chC, 4), "C", 0, <<1, 1, 0>>)>>,
     LB |-> {<<1, 2, o1>>, <<1, 3, o1>>, <<1, 4, o1>>, <<2, 3, o1>>},
     RB |-> {<<11, 12, o1>>, <<11, 13, o1>>, <<12, 14, o1>>, <<13, 14, o1>>}]

\* a chain of three against a chain of four, with slightly different charges
MolChain ==
    [L |-> <<AtomNode(Nm(chC, 1), "C", 36000, <<0, 0, 0>>), AtomNode(Nm(chC, 2), "C", -36000, <<1, 0, 0>>),
             AtomNode(Nm(chC, 3), "C", 0, <<2, 0, 0>>)>>,
     R |-> <<AtomNode(NmR(chC, 1), "C", 33600, <<0, 0, 0>>), AtomNode(NmR(chC, 2), "C", -36000, <<1, 0, 0>>),
             AtomNode(NmR(chC, 3), "C", 0, <<2, 0, 0>>), AtomNode(NmR(chN, 4), "N", 2400, <<3, 0, 0>>)>>,
     LB |-> {<<1, 2, o1>>, <<2, 3, o1>>},
     RB |-> {<<11, 12, o1>>, <<12, 13, o1>>, <<13, 14, o1>>}]

\* the same elements with different atom types, and a large charge difference
MolTypes ==
    [L |-> <<AtomNode(Nm(chC, 1), "CA", 0, <<0, 0, 0>>), AtomNode(Nm(chC, 2), "C3", 24000, <<1, 0, 0>>),
             AtomNode(Nm(chO, 1), "OH", -24000, <<2, 0, 0>>)>>,
     R |-> <<AtomNode(NmR(chC, 1), "CB", 0, <<0, 0, 0>>), AtomNode(NmR(chC, 2), "C3", 30000, <<1, 0, 0>>),
             AtomNode(NmR(chO, 1), "OH", -30000, <<2, 0, 0>>)>>,
     LB |-> {<<1, 2, o1>>, <<2, 3, o1>>},
     RB |-> {<<11, 12, o1>>, <<12, 13, o1>>}]

\* aromatic and double bonds next to unmatched atoms
MolAromatic ==
    [L |-> <<AtomNode(Nm(chC, 1), "CA", 0, <<0, 0, 0>>), AtomNode(Nm(chC, 2), "CA", 0, <<1, 0, 0>>),
             AtomNode(Nm(chN, 1), "N", 0, <<2, 0, 0>>)>>,
     R |-> <<AtomNode(NmR(chC, 1), "CA", 0, <<0, 0, 0>>), AtomNode(NmR(chC, 2), "CA", 0, <<1, 0, 0>>),
             AtomNode(NmR(chO, 1), "O", 0, <<2, 0, 0>>)>>,
     LB |-> {<<1, 2, oar>>, <<2, 3, oar>>},
     RB |-> {<<11, 12, oar>>, <<12, 13, o2>>}]

\* hydrogens on a two-atom chain
MolHydrogens ==
    [L |-> <<AtomNode(Nm(chC, 1), "C3", 0, <<0, 0, 0>>), AtomNode(Nm(chC, 2), "C3", 0, <<1, 0, 0>>),
             AtomNode(Nm(chH, 1), "HC", 0, <<0, 1, 0>>), AtomNode(Nm(chH, 2), "H", 0, <<1, 1, 0>>)>>,
     R |-> <<AtomNode(NmR(chC, 1), "C3", 0, <<0, 0, 0>>), AtomNode(NmR(chC, 2), "C3", 0, <<1, 0, 0>>),
             AtomNode(NmR(chH, 1), "HC", 0, <<0, 1, 0>>), AtomNode(NmR(chH, 2), "H", 0, <<1, 1, 0>>)>>,
     LB |-> {<<1, 2, o1>>, <<1, 3, o1>>, <<2, 4, o1>>},
     RB |-> {<<11, 12, o1>>, <<11, 13, o1>>, <<12, 14, o1>>}]

\* a three-ring with a substituent against a three-ring with another substituent
MolRing ==
    [L |-> <<AtomNode(Nm(chC, 1), "C", 0, <<0, 0, 0>>), AtomNode(Nm(chC, 2), "C", 12000, <<1, 0, 0>>),
             AtomNode(Nm(chC, 3), "C", 0, <<0, 1, 0>>), AtomNode(Nm(chN, 1), "N", -12000, <<2, 0, 0>>)>>,
     R |-> <<AtomNode(NmR(chC, 1), "C", 0, <<0, 0, 0>>), AtomNode(NmR(chC, 2), "C", 36000, <<1, 1, 0>>),
             AtomNode(NmR(chC, 3), "C", 0, <<0, 1, 0>>), AtomNode(NmR(chO, 1), "O", -36000, <<2, 0, 0>>)>>,
     LB |-> {<<1, 2, o1>>, <<1, 3, o1>>, <<2, 3, o1>>, <<2, 4, o1>>},
     RB |-> {<<11, 12, o1>>, <<11, 13, o1>>, <<12, 13, o1>>, <<12, 14, o1>>}]

\* a three-ring of one carbon and two nitrogens with a pendant carbon against
\* a three-ring of one nitrogen and two carbons with a pendant nitrogen
MolPendant ==
    [L |-> <<AtomNode(Nm(chC, 1), "C", 0, <<0, 0, 0>>), AtomNode(Nm(chC, 2), "C", 0, <<1, 0, 0>>),
             AtomNode(Nm(chN, 1), "N", 0, <<2, 1, 0>>), AtomNode(Nm(chN, 2), "N", 0, <<2, 0, 1>>)>>,
     R |-> <<AtomNode(NmR(chN, 1), "N", 0, <<2, 1, 0>>), AtomNode(NmR(chN, 2), "N", 0, <<2, 0, 1>>),
             AtomNode(NmR(chC, 1), "C", 0, <<0, 0, 0>>), AtomNode(NmR(chC, 2), "C", 0, <<1, 0, 0>>)>>,
     LB |-> {<<1, 2, o1>>, <<2, 3, o1>>, <<2, 4, o1>>, <<3, 4, o1>>},
     RB |-> {<<11, 12, o1>>, <<11, 13, o1>>, <<11, 14, o1>>, <<13, 14, o1>>}]

\* two oxygens on one carbon against one oxygen: two matches of one length
\* that share atoms
MolFork ==
    [L |-> <<AtomNode(Nm(chO, 1), "O", -60000, <<0, 0, 0>>), AtomNode(Nm(chC, 1), "C", 60000, <<1, 0, 0>>),
             AtomNode(Nm(chO, 2), "O", -60000, <<1, 1, 0>>), AtomNode(Nm(chC, 2), "C", 60000, <<2, 0, 0>>)>>,
     R |-> <<AtomNode(NmR(chO, 1), "O", -84000, <<0, 0, 0>>), AtomNode(NmR(chC, 1), "C", 48000, <<1, 0, 0>>),
             AtomNode(NmR(chC, 2), "C", 36000, <<2, 0, 0>>)>>,
     LB |-> {<<1, 2, o1>>, <<2, 3, o1>>, <<2, 4, o1>>},
     RB |-> {<<11, 12, o1>>, <<12, 13, o1>>}]

\* the fork with charges that fit one oxygen of the left ligand only
MolForkCharged ==
    [L |-> <<AtomNode(Nm(chO, 1), "O", -24000, <<0, 0, 0>>), AtomNode(Nm(chC, 1), "C", 60000, <<1, 0, 0>>),
             AtomNode(Nm(chO, 2), "O", -60000, <<1, 1, 0>>), AtomNode(Nm(chC, 2), "C", 24000, <<2, 0, 0>>)>>,
     R |-> <<AtomNode(NmR(chO, 1), "O", -60000, <<0, 0, 0>>), AtomNode(NmR(chC, 1), "C", 54000, <<1, 0, 0>>),
             AtomNode(NmR(chC, 2), "C", 6000, <<2, 0, 0>>)>>,
     LB |-> {<<1, 2, o1>>, <<2, 3, o1>>, <<2, 4, o1>>},
     RB |-> {<<11, 12, o1>>, <<12, 13, o1>>}]

\* one carbon to match, with a charge that differs by 0.2 e
MolPolar ==
    [L |-> <<AtomNode(Nm(chC, 1), "C", 24000, <<0, 0, 0>>), AtomNode(Nm(chN, 1), "N", -24000, <<1, 0, 0>>)>>,
     R |-> <<AtomNode(NmR(chC, 1), "C", 48000, <<0, 0, 0>>), AtomNode(NmR(chO, 1), "O", -48000, <<1, 0, 0>>)>>,
     LB |-> {<<1, 2, o1>>},
     RB |-> {<<11, 12, o1>>}]

\* the GAFF types cc and cd in the opposite order on the two sides
MolCcCd ==
    [L |-> <<AtomNode(Nm(chN, 1), "N", 0, <<0, 0, 0>>), AtomNode(Nm(chC, 1), "CC", 0, <<1, 0, 0>>),
             AtomNode(Nm(chC, 2), "CD", 0, <<2, 0, 0>>)>>,
     R |-> <<AtomNode(NmR(chN, 1), "N", 0, <<0, 0, 0>>), AtomNode(NmR(chC, 1), "CD", 0, <<1, 0, 0>>),
             AtomNode(NmR(chC, 2), "CC", 0, <<2, 0, 0>>)>>,
     LB |-> {<<1, 2, o1>>, <<2, 3, o2>>},
     RB |-> {<<11, 12, o1>>, <<12, 13, o2>>}]

\* two three-rings of carbon (test_3C_circle)
MolTriangles ==
    [L |-> <<AtomNode(Nm(chC, 1), "C", 0, <<1, 1, 0>>), AtomNode(Nm(chC, 2), "C", 0, <<1, 2, 0>>),
             AtomNode(Nm(chC, 3), "C", 0, <<2, 2, 0>>)>>,
     R |-> <<AtomNode(NmR(chC, 1), "C", 0, <<1, 1, 0>>), AtomNode(NmR(chC, 2), "C", 0, <<1, 2, 0>>),
             AtomNode(NmR(chC, 3), "C", 0, <<2, 2, 0>>)>>,
     LB |-> {<<1, 2, o1>>, <<1, 3, o1>>, <<2, 3, o1>>},
     RB |-> {<<11, 12, o1>>, <<11, 13, o1>>, <<12, 13, o1>>}]

\* the chain with hydrogens, the left carbon C1 charged against its hydrogen
\* and the hydrogen of C2 (0.15 e against twice -0.075 e)
MolHydrogensCharged ==
    [L |-> <<AtomNode(Nm(chC, 1), "C3", 18000, <<0, 0, 0>>), AtomNode(Nm(chC, 2), "C3", 0, <<1, 0, 0>>),
             AtomNode(Nm(chH, 1), "HC", -9000, <<0, 1, 0>>), AtomNode(Nm(chH, 2), "HC", -9000, <<1, 1, 0>>)>>,
     R |-> <<AtomNode(NmR(chC, 1), "C3", 0, <<0, 0, 0>>), AtomNode(NmR(chC, 2), "C3", 0, <<1, 0, 0>>),
             AtomNode(NmR(chH, 1), "HC", 0, <<0, 1, 0>>), AtomNode(NmR(chH, 2), "HC", 0, <<1, 1, 0>>)>>,
     LB |-> {<<1, 2, o1>>, <<1, 3, o1>>, <<2, 4, o1>>},
     RB |-> {<<11, 12, o1>>, <<11, 13, o1>>, <<12, 14, o1>>}]

\* a chain of four carbons against a four-ring of carbons
MolChainSquare ==
    [L |-> <<AtomNode(Nm(chC, 1), "C", 0, <<1, 0, 0>>), AtomNode(Nm(chC, 2), "C", 0, <<2, 0, 0>>),
             AtomNode(Nm(chC, 3), "C", 0, <<3, 0, 0>>), AtomNode(Nm(chC, 4), "C", 0, <<4, 0, 0>>)>>,
     R |-> <<AtomNode(NmR(chC, 1), "C", 0, <<1, 0, 0>>), AtomNode(NmR(chC, 2), "C", 0, <<2, 0, 0>>),
             AtomNode(NmR(chC, 3), "C", 0, <<3, 0, 0>>), AtomNode(NmR(chC, 4), "C", 0, <<4, 0, 0>>)>>,
     LB |-> {<<1, 2, o1>>, <<2, 3, o1>>, <<3, 4, o1>>},
     RB |-> {<<11, 12, o1>>, <<11, 13, o1>>, <<12, 14, o1>>, <<13, 14, o1>>}]

\* two three-rings of carbons that share the atom C3 against a four-ring
MolBowtieSquare ==
    [L |-> <<AtomNode(Nm(chC, 1), "C", 0, <<1, 0, 0>>), AtomNode(Nm(chC, 2), "C", 0, <<2, 0, 0>>),
             AtomNode(Nm(chC, 3), "C", 0, <<3, 0, 0>>), AtomNode(Nm(chC, 4), "C", 0, <<4, 0, 0>>),
             AtomNode(Nm(chC, 5), "C", 0, <<5, 0, 0>>)>>,
     R |-> <<AtomNode(NmR(chC, 1), "C", 0, <<1, 0, 0>>), AtomNode(NmR(chC, 2), "C", 0, <<2, 0, 0>>),
             AtomNode(NmR(chC, 3), "C", 0, <<3, 0, 0>>), AtomNode(NmR(chC, 4), "C", 0, <<4, 0, 0>>)>>,
     LB |-> {<<1, 2, o1>>, <<1, 3, o1>>, <<2, 3, o1>>, <<3, 4, o1>>, <<3, 5, o1>>, <<4, 5, o1>>},
     RB |-> {<<11, 12, o1>>, <<11, 13, o1>>, <<12, 14, o1>>, <<13, 14, o1>>}]

\* a four-ring C1-C2-N4-C3 against a three-ring C12-C13-N14 with C11 on C12
MolSquareTriangle ==
    [L |-> <<AtomNode(Nm(chC, 1), "C", 0, <<1, 0, 0>>), AtomNode(Nm(chC, 2), "C", 0, <<2, 0, 0>>),
             AtomNode(Nm(chC, 3), "C", 0, <<3, 0, 0>>), AtomNode(Nm(chN, 4), "N", 0, <<4, 0, 0>>)>>,
     R |-> <<AtomNode(NmR(chC, 1), "C", 0, <<1, 0, 0>>), AtomNode(NmR(chC, 2), "C", 0, <<2, 0, 0>>),
             AtomNode(NmR(chC, 3), "C", 0, <<3, 0, 0>>), AtomNode(NmR(chN, 4), "N", 0, <<4, 0, 0>>)>>,
     LB |-> {<<1, 2, o1>>, <<1, 3, o1>>, <<3, 4, o1>>, <<2, 4, o1>>},
     RB |-> {<<11, 12, o1>>, <<12, 13, o1>>, <<12, 14, o1>>, <<13, 14, o1>>}]

\* a CC/CD pair of ring carbons in the other order on the right, next to a
\* carbon whose specific type differs (CA against CB)
MolCcCdTypes ==
    [L |-> <<AtomNode(Nm(chN, 1), "N", 0, <<0, 0, 0>>), AtomNode(Nm(chC, 1), "CC", 0, <<1, 0, 0>>),
             AtomNode(Nm(chC, 2), "CD", 0, <<2, 0, 0>>), AtomNode(Nm(chC, 3), "CA", 0, <<3, 0, 0>>)>>,
     R |-> <<AtomNode(NmR(chN, 1), "N", 0, <<0, 0, 0>>), AtomNode(NmR(chC, 1), "CD", 0, <<1, 0, 0>>),
             AtomNode(NmR(chC, 2), "CC", 0, <<2, 0, 0>>), AtomNode(NmR(chC, 3), "CB", 0, <<3, 0, 0>>)>>,
     LB |-> {<<1, 2, o1>>, <<2, 3, o2>>, <<3, 4, o1>>},
     RB |-> {<<11, 12, o1>>, <<12, 13, o2>>, <<13, 14, o1>>}]

Mols == <<MolNitro, MolTriSquare, MolChain, MolTypes, MolAromatic, MolHydrogens, MolRing,
          MolPendant, MolFork, MolCcCd, MolForkCharged, MolPolar, MolTriangles,
          MolHydrogensCharged, MolChainSquare, MolBowtieSquare, MolSquareTriangle>>

\* the ligands of the calls of superimpose_topologies
PipelineMols == {Mols[i] : i \in 1..Len(Mols)} \cup {MolCcCdTypes}

-----------------------------------------------------------------------------
(* The ligands of the current run.                                         *)
M == mol

\* top1 and top2: the atoms of the left and of the right ligand
top1 == 1..Len(M.L)
top2 == {10 + i : i \in 1..Len(M.R)}

IsLeft(a) == a <= 10
node(a) == IF IsLeft(a) THEN M.L[a] ELSE M.R[a - 10]
name(a) == node(a).name
element(a) == element_from_type[atype[a]]
position(a) == node(a).position

\* AtomNode.bonds after bind_to: the set of <<other atom, bond order>>
bonds(a) ==
    LET B == IF IsLeft(a) THEN M.LB ELSE M.RB
    IN  {<<b[2], b[3]>> : b \in {x \in B : x[1] = a}} \cup
        {<<b[1], b[3]>> : b \in {x \in B : x[2] = a}}

\* AtomNode.bound_to
bound_to(a, b) == \E x \in bonds(a) : x[1] = b

\* the order of the bond between a and b
bond_order(a, b) == (CHOOSE x \in bonds(a) : x[1] = b)[2]

-----------------------------------------------------------------------------
(* Python lists and sets.                                                  *)
Range(s) == {s[i] : i \in 1..Len(s)}
InSeq(x, s) == \E i \in 1..Len(s) : s[i] = x

\* list.remove(x): drops the first occurrence
ListRemove(s, x) ==
    LET i == CHOOSE k \in 1..Len(s) : s[k] = x /\ \A j \in 1..(k - 1) : s[j] # x
    IN  [k \in 1..(Len(s) - 1) |-> IF k < i THEN s[k] ELSE s[k + 1]]

Reverse(s) == [i \in 1..Len(s) |-> s[Len(s) + 1 - i]]

RECURSIVE SumSeq(_)
SumSeq(s) == IF s = <<>> THEN 0 ELSE Head(s) + SumSeq(Tail(s))

Abs(x) == IF x < 0 THEN -x ELSE x

\* the ascending sequence of a set of integers
RECURSIVE Ascending(_)
Ascending(S) ==
    IF S = {} THEN <<>>
    ELSE LET m == CHOOSE x \in S : \A y \in S : x <= y
         IN  <<m>> \o Ascending(S \ {m})

\* iteration over a Python set of atoms: the order a hash table yields is
\* arbitrary; the model takes the ascending or the descending order
IterAtoms(S) == IF setOrder = "asc" THEN Ascending(S) ELSE Reverse(Ascending(S))

\* iteration over atom.bonds, a set of (atom, bond order)
IterBonds(a) ==
    LET s == IterAtoms({b[1] : b \in bonds(a)})
    IN  [i \in 1..Len(s) |-> <<s[i], bond_order(a, s[i])>>]

\* str < str of Python, on sequences of characters
RECURSIVE StrLess(_, _)
StrLess(s, t) ==
    IF t = <<>> THEN FALSE
    ELSE IF s = <<>> THEN TRUE
    ELSE IF code(Head(s)) # code(Head(t)) THEN code(Head(s)) < code(Head(t))
    ELSE StrLess(Tail(s), Tail(t))

\* F applied to v: names a value that is used more than once
Bind(v, F(_)) == F(v)

\* list.sort(key=lambda pair: pair[0].name): a stable sort by the left name,
\* done here by stable insertion
RECURSIVE SortByName(_)
InsertByName(s, p) ==
    LET k == Cardinality({i \in 1..Len(s) : ~StrLess(name(p[1]), name(s[i][1]))})
    IN  SubSeq(s, 1, k) \o <<p>> \o SubSeq(s, k + 1, Len(s))
\* the list left as it is after the append
SortByNameSkipped(s) == s

SortByName(s) ==
    IF s = <<>> THEN <<>>
    ELSE InsertByName(SortByName(SubSeq(s, 1, Len(s) - 1)), s[Len(s)])

-----------------------------------------------------------------------------
(* SuperimposedTopology.  A value of the model is the state of one object: *)
(*   matched_pairs        the list of pairs, kept sorted by the left name  *)
(*   nodes                the set of the atoms used                        *)
(*   matched_pairs_bonds  a dict: pair -> set of <<pair, <<order, order>>>>*)
(*   nodes_added_log, mirrors, alternative_mappings, the _removed_* logs,  *)
(*   internal_ids (None is the empty function with has_ids = FALSE).       *)
(* filtered and hist are history fields: the pairs the post-filters took   *)
(* out, and the kinds of calls the object went through.                    *)
(* An operation that can raise returns [st |-> the object as the raise     *)
(* leaves it, err |-> the exception, "" for none].                         *)

\* SuperimposedTopology.__init__ with no matched pairs
NewSuptop ==
    [matched_pairs |-> <<>>, nodes |-> {}, matched_pairs_bonds |-> <<>>,
     nodes_added_log |-> <<>>, mirrors |-> <<>>, alternative_mappings |-> <<>>,
     removed_pairs_with_charge_difference |-> <<>>,
     removed_because_disjointed_cc |-> <<>>,
     removed_due_to_net_charge |-> <<>>,
     removed_because_unmatched_rings |-> <<>>,
     removed_because_diff_bonds |-> <<>>,
     has_ids |-> FALSE, internal_ids |-> <<>>, unique_atom_count |-> 0,
     filtered |-> {}, hist |-> {},
     shared |-> [attrs |-> {}, sets |-> {}]]

Ok(st) == [st |-> st, err |-> ""]
Raise(st, e) == [st |-> st, err |-> e]

\* __len__
len(st) == Len(st.matched_pairs)

\* the pairs of a topology as a set
Pairs(st) == Range(st.matched_pairs)

contains_node(st, a) == a \in st.nodes
contains_any_node(st, S) == st.nodes \cap S # {}
contains(st, pair) == InSeq(pair, st.matched_pairs)
contains_all(st, other) == \A i \in 1..len(other) : contains(st, other.matched_pairs[i])
count_common_node_pairs(st, other) ==
    Cardinality(Range(st.matched_pairs) \cap Range(other.matched_pairs))
contains_any_node_from(st, other) == st.nodes \cap other.nodes # {}
contains_same_atoms_symmetric(st, other) ==
    (st.nodes \ other.nodes) \cup (other.nodes \ st.nodes) = {}

\* eq: the same pairs, in any order
eq(st, other) ==
    /\ len(st) = len(other)
    /\ \A i \in 1..len(st) : contains(other, st.matched_pairs[i])

\* add_node_pair without its assertions on the nodes
add_node_pair_unchecked(st, pair) ==
    IF InSeq(pair, st.matched_pairs) THEN Raise(st, "AssertionError")
    ELSE Ok([st EXCEPT !.matched_pairs = SortByName(Append(@, pair)),
                       !.nodes = @ \cup {pair[1], pair[2]},
                       !.nodes_added_log = Append(@, <<"Added", pair>>),
                       !.matched_pairs_bonds = (pair :> {}) @@ @])

\* add_node_pair: the pair is appended and the list sorted before the
\* assertion on the nodes, so a failed call leaves matched_pairs changed
add_node_pair(st, pair) ==
    IF InSeq(pair, st.matched_pairs) THEN Raise(st, "AssertionError")
    ELSE Bind([st EXCEPT !.matched_pairs = SortByName(Append(@, pair))], LAMBDA s1 :
             IF pair[1] \in st.nodes \/ pair[2] \in st.nodes
             THEN Raise(s1, "AssertionError")
             ELSE Bind([s1 EXCEPT !.nodes = @ \cup {pair[1], pair[2]}], LAMBDA s2 :
                      IF Len(s2.matched_pairs) * 2 # Cardinality(s2.nodes)
                      THEN Raise(s2, "AssertionError")
                      ELSE Ok([s2 EXCEPT
                                 !.nodes_added_log = Append(@, <<"Added", pair>>),
                                 !.matched_pairs_bonds = (pair :> {}) @@ @])))

\* dict[key].add(x)
BondsAdd(b, key, x) == [b EXCEPT ![key] = @ \cup {x}]

\* link_with_parent
link_with_parent(st, pair, parent, bond_type) ==
    IF pair \notin DOMAIN st.matched_pairs_bonds \/ parent \notin DOMAIN st.matched_pairs_bonds
    THEN Raise(st, "AssertionError")
    ELSE Ok([st EXCEPT !.matched_pairs_bonds =
                BondsAdd(BondsAdd(@, parent, <<pair, bond_type>>), pair, <<parent, bond_type>>)])

\* link_pairs: pairs is a set of <<pair, bond types>>; an unknown pair raises
\* (the links made before it stay; the model keeps all the valid ones)
RECURSIVE LinkAll(_, _, _)
LinkAll(b, from_pair, pairs) ==
    IF pairs = {} THEN b
    ELSE LET x == CHOOSE y \in pairs : TRUE
         IN  LinkAll(BondsAdd(BondsAdd(b, from_pair, x), x[1], <<from_pair, x[2]>>),
                     from_pair, pairs \ {x})

link_pairs(st, from_pair, pairs) ==
    IF from_pair \notin DOMAIN st.matched_pairs_bonds THEN Raise(st, "AssertionError")
    ELSE Bind({x \in pairs : x[1] \in DOMAIN st.matched_pairs_bonds}, LAMBDA known :
             Bind([st EXCEPT !.matched_pairs_bonds = LinkAll(@, from_pair, known)], LAMBDA s1 :
                 IF known # pairs THEN Raise(s1, "AssertionError") ELSE Ok(s1)))

\* remove_node_pair
UnlinkAll(b, pair, bound) ==
    [k \in DOMAIN b |->
        IF \E x \in bound : x[1] = k
        THEN b[k] \ {<<pair, x[2]>> : x \in {y \in bound : y[1] = k}}
        ELSE b[k]]

\* remove_node_pair that leaves the atoms of the pair in nodes
remove_node_pair_keeps_nodes(st, pair) ==
    IF ~InSeq(pair, st.matched_pairs) THEN Raise(st, "ValueError")
    ELSE Ok([st EXCEPT !.matched_pairs = ListRemove(@, pair),
                       !.nodes_added_log = Append(@, <<"Removed", pair>>),
                       !.matched_pairs_bonds =
                           UnlinkAll([k \in DOMAIN @ \ {pair} |-> @[k]], pair, @[pair])])

remove_node_pair(st, pair) ==
    IF ~InSeq(pair, st.matched_pairs) THEN Raise(st, "ValueError")
    ELSE LET s1 == [st EXCEPT !.matched_pairs = ListRemove(@, pair)]
         IN  IF pair[1] \notin st.nodes \/ pair[2] \notin st.nodes
             THEN Raise([s1 EXCEPT !.nodes = @ \ {pair[1]}], "KeyError")
             ELSE LET s2 == [s1 EXCEPT !.nodes = @ \ {pair[1], pair[2]},
                                       !.nodes_added_log = Append(@, <<"Removed", pair>>)]
                  IN  IF pair \notin DOMAIN st.matched_pairs_bonds THEN Raise(s2, "KeyError")
                      ELSE LET bound == st.matched_pairs_bonds[pair]
                               rest == [k \in DOMAIN st.matched_pairs_bonds \ {pair} |->
                                           st.matched_pairs_bonds[k]]
                               good == {x \in bound : x[1] \in DOMAIN rest /\ <<pair, x[2]>> \in rest[x[1]]}
                               s3 == [s2 EXCEPT !.matched_pairs_bonds = UnlinkAll(rest, pair, good)]
                           IN  IF good # bound THEN Raise(s3, "KeyError") ELSE Ok(s3)

\* __copy__: a new object takes every attribute of the old one (__dict__
\* update, which shares the _removed_* lists), then gets its own copies of
\* matched_pairs, nodes, nodes_added_log, the bond sets, mirrors and
\* alternative_mappings
copy(st) ==
    [[f \in DOMAIN NewSuptop |-> st[f]] EXCEPT
        !.matched_pairs = [i \in 1..Len(st.matched_pairs) |-> st.matched_pairs[i]],
        !.nodes = {a \in st.nodes : TRUE},
        !.nodes_added_log = [i \in 1..Len(st.nodes_added_log) |-> st.nodes_added_log[i]],
        !.matched_pairs_bonds = [k \in DOMAIN st.matched_pairs_bonds |->
                                    {x \in st.matched_pairs_bonds[k] : TRUE}],
        !.mirrors = [i \in 1..Len(st.mirrors) |-> st.mirrors[i]],
        !.alternative_mappings = [i \in 1..Len(st.alternative_mappings) |->
                                     st.alternative_mappings[i]]]

\* merge: absorb the pairs of suptop that self does not have, then copy the
\* bonds suptop recorded for the pairs that were added
RECURSIVE MergeAdd(_, _, _, _)
MergeAdd(st, pairs, i, merged) ==
    IF i > Len(pairs) THEN [st |-> st, err |-> "", merged |-> merged]
    ELSE IF contains(st, pairs[i]) THEN MergeAdd(st, pairs, i + 1, merged)
    ELSE IF contains_node(st, pairs[i][1]) \/ contains_node(st, pairs[i][2])
         THEN [st |-> st, err |-> "Exception", merged |-> merged]
    ELSE Bind(add_node_pair(st, pairs[i]), LAMBDA r :
             IF r.err # "" THEN [st |-> r.st, err |-> r.err, merged |-> merged]
             ELSE MergeAdd(r.st, pairs, i + 1, Append(merged, pairs[i])))

RECURSIVE MergeLink(_, _, _, _)
MergeLink(st, suptop, merged, i) ==
    IF i > Len(merged) THEN Ok(st)
    ELSE IF merged[i] \notin DOMAIN suptop.matched_pairs_bonds THEN Raise(st, "KeyError")
    ELSE IF suptop.matched_pairs_bonds[merged[i]] = {} THEN Raise(st, "AssertionError")
    ELSE Bind(link_pairs(st, merged[i], suptop.matched_pairs_bonds[merged[i]]), LAMBDA r :
             IF r.err # "" THEN r ELSE MergeLink(r.st, suptop, merged, i + 1))

merge(st, suptop) ==
    Bind(MergeAdd(st, suptop.matched_pairs, 1, <<>>), LAMBDA a :
        IF a.err # "" THEN Raise(a.st, a.err)
        ELSE Bind(MergeLink(a.st, suptop, a.merged, 1), LAMBDA l :
                 IF l.err # "" THEN l
                 ELSE Ok([l.st EXCEPT !.nodes_added_log = Append(@, <<"merged with", a.merged>>)])))

-----------------------------------------------------------------------------
(* Graphs and cycles (networkx).                                           *)

\* the edges of the subgraph a set of atoms induces
Edges(S) == {e \in SUBSET S : Cardinality(e) = 2 /\ \E a \in e : \E b \in e : a # b /\ bound_to(a, b)}

\* the atoms reachable from the atoms of F inside S
RECURSIVE Reach(_, _)
Reach(F, S) ==
    LET G == F \cup {b \in S : \E a \in F : bound_to(a, b)}
    IN  IF G = F THEN F ELSE Reach(G, S)

\* nx.connected_components
RECURSIVE Components(_)
Components(S) ==
    IF S = {} THEN {}
    ELSE LET c == Reach({CHOOSE a \in S : TRUE}, S)
         IN  {c} \cup Components(S \ c)

\* len(nx.cycle_basis(g)) for the subgraph the atoms S induce: the
\* cyclomatic number, edges - nodes + components
CycleCount(S) == Cardinality(Edges(S)) - Cardinality(S) + Cardinality(Components(S))

\* nx.cycle_basis as sets of atoms; in a cactus the basis is unique: its
\* cycles are the sets that induce a connected graph of degree two
CycleBasis(S) ==
    {c \in SUBSET S :
        /\ Cardinality(c) >= 3
        /\ \A a \in c : Cardinality({b \in c : bound_to(a, b)}) = 2
        /\ Cardinality(Components(c)) = 1}

\* get_nx_graphs: the atoms of the matched pairs, left and right
LeftNodes(st) == {st.matched_pairs[i][1] : i \in 1..len(st)}
RightNodes(st) == {st.matched_pairs[i][2] : i \in 1..len(st)}

\* get_circle_number
get_circle_number(st) == <<CycleCount(LeftNodes(st)), CycleCount(RightNodes(st))>>

\* same_circle_number
same_circle_number(st) == Bind(get_circle_number(st), LAMBDA n : n[1] = n[2])

\* _init_nonoverlapping_cycles: the cycles of a ligand without the atoms two
\* cycles share (no atom of the catalogue is on three rings)
NonOverlapping(top) ==
    LET cs == CycleBasis(top)
    IN  {c \ UNION (cs \ {c}) : c \in cs}

\* _cycles_overlap
cycles_overlap(st, l_cycle, r_cycle) ==
    \E l \in l_cycle : \E r \in r_cycle : contains(st, <<l, r>>)

\* cycle_spans_multiple_cycles
cycle_spans_multiple_cycles(st) ==
    \/ \E l_cycle \in NonOverlapping(top1) :
          Cardinality({r_cycle \in NonOverlapping(top2) : cycles_overlap(st, l_cycle, r_cycle)}) > 1
    \/ \E r_cycle \in NonOverlapping(top2) :
          Cardinality({l_cycle \in NonOverlapping(top1) : cycles_overlap(st, l_cycle, r_cycle)}) > 1

\* is_consistent_cycles: raises when either object already has different
\* cycle counts left and right; otherwise merges into a copy and compares
is_consistent_cycles(st, suptop) ==
    IF ~same_circle_number(st) \/ ~same_circle_number(suptop) THEN [val |-> FALSE, err |-> "Exception"]
    ELSE Bind(merge(copy(st), suptop), LAMBDA m :
             IF m.err # "" THEN [val |-> FALSE, err |-> m.err]
             ELSE [val |-> same_circle_number(m.st), err |-> ""])

\* the first two conditions of is_consistent_with
NoClash(st, suptop) ==
    \A i \in 1..len(st) : \A j \in 1..len(suptop) :
        LET p == st.matched_pairs[i]
            q == suptop.matched_pairs[j]
        IN  ~((p[1] = q[1] /\ p[2] # q[2]) \/ (p[2] = q[2] /\ p[1] # q[1]))

\* is_consistent_with
is_consistent_with(st, suptop) ==
    IF ~NoClash(st, suptop) THEN [val |-> FALSE, err |-> ""]
    ELSE IF count_common_node_pairs(st, suptop) = 0 THEN [val |-> FALSE, err |-> ""]
    ELSE is_consistent_cycles(st, suptop)

-----------------------------------------------------------------------------
(* Atom comparisons.                                                       *)

\* AtomNode.same_type
same_type(a, b) == atype[a] = atype[b]

\* AtomNode.same_element
same_element(a, b) ==
    IF node(a).use_general_type THEN element(a) = element(b) ELSE atype[a] = atype[b]

-----------------------------------------------------------------------------
(* Mirrors, alternative mappings and the choice of the best candidate.     *)

\* a mirror entry that is the object itself (is_mirror_of_one can make an
\* object its own mirror)
SelfRef == [self |-> TRUE]
IsSelfRef(m) == DOMAIN m = {"self"}
Deref(st, m) == IF IsSelfRef(m) THEN st ELSE m

\* is_subgraph_of
is_subgraph_of(st, other) ==
    IF len(st) >= len(other) THEN FALSE
    ELSE \/ contains_all(other, st)
         \/ \E i \in 1..Len(st.mirrors) : contains_all(other, Deref(st, st.mirrors[i]))

\* no two topologies taken for mirrors
is_mirror_of_never(st, other) == FALSE

\* is_mirror_of
is_mirror_of(st, other) ==
    len(st) = len(other) /\ contains_same_atoms_symmetric(st, other)

\* add_mirror_suptop, for a suptop that is another object than st: the
\* mirrors of suptop move to st and suptop is appended without mirrors
add_mirror_suptop(st, suptop) ==
    LET bare == [suptop EXCEPT !.mirrors = <<>>]
        moved == [i \in 1..Len(suptop.mirrors) |->
                     IF IsSelfRef(suptop.mirrors[i]) THEN bare ELSE suptop.mirrors[i]]
    IN  IF \E i \in 1..Len(st.mirrors) : eq(suptop, Deref(st, st.mirrors[i])) THEN st
        ELSE [st EXCEPT !.mirrors = (@ \o moved) \o <<bare>>]

\* add_alternative_mapping
add_alternative_mapping(st, weird_symmetry) ==
    [st EXCEPT !.alternative_mappings = Append(@, weird_symmetry)]

\* the sum of the squared distances of the pairs: rmsd() is the root of
\* SqDist / len, and two rmsd values are compared by cross-multiplication
Sq(x) == x * x
SqDist(st) ==
    SumSeq([i \in 1..len(st) |->
        LET p == position(st.matched_pairs[i][1])
            q == position(st.matched_pairs[i][2])
        IN  Sq(p[1] - q[1]) + Sq(p[2] - q[2]) + Sq(p[3] - q[3])])

\* rmsd(a) < rmsd(b), both non-empty
RmsdLess(a, b) == SqDist(a) * len(b) < SqDist(b) * len(a)

\* get_largest
get_largest(lists) ==
    LET largest_sol_size == CHOOSE n \in {len(lists[i]) : i \in 1..Len(lists)} :
                                \A i \in 1..Len(lists) : len(lists[i]) <= n
    IN  SelectSeq(lists, LAMBDA st : len(st) = largest_sol_size)

\* extract_best_suptop: the first candidate of the lowest rmsd absorbs the
\* others as mirrors or as alternative mappings
RECURSIVE Absorb(_, _, _, _)
\* the best candidate alone, the others forgotten
AbsorbNothing(cand, sts, best, i) == cand

Absorb(cand, sts, best, i) ==
    IF i > Len(sts) THEN cand
    ELSE IF i = best THEN Absorb(cand, sts, best, i + 1)
    ELSE IF is_mirror_of(sts[i], cand)
         THEN Absorb(add_mirror_suptop(cand, sts[i]), sts, best, i + 1)
    ELSE Absorb(add_alternative_mapping(cand, sts[i]), sts, best, i + 1)

\* rmsds.index(min(rmsds)): the first candidate of the lowest rmsd
BestIndex(sts) ==
    CHOOSE i \in 1..Len(sts) :
        /\ \A j \in 1..Len(sts) : ~RmsdLess(sts[j], sts[i])
        /\ \A j \in 1..(i - 1) : RmsdLess(sts[i], sts[j])

extract_best_suptop(sts) ==
    IF Len(sts) = 0 THEN Raise(NewSuptop, "Exception")
    ELSE IF Len(sts) = 1 THEN Ok(sts[1])
    ELSE IF \E i \in 1..Len(sts) : len(sts[i]) = 0 THEN Raise(NewSuptop, "AssertionError")
    ELSE Ok(Absorb(sts[BestIndex(sts)], sts, BestIndex(sts), 1))

\* long_merge(suptop1, suptop2), for two different objects: the new state of
\* suptop1 (the return value is not used by the caller)
MergeIfConsistent(suptop1, suptop2, c) ==
    IF c.err # "" THEN Raise(suptop1, c.err)
    ELSE IF ~c.val THEN Ok(suptop1)
    ELSE merge(suptop1, suptop2)

long_merge(suptop1, suptop2) ==
    IF eq(suptop1, suptop2) THEN Ok(suptop1)
    ELSE IF is_subgraph_of(suptop2, suptop1) THEN Ok(suptop1)
    ELSE MergeIfConsistent(suptop1, suptop2, is_consistent_with(suptop1, suptop2))

-----------------------------------------------------------------------------
(* solve_one_combination.  Its argument, a dict of dicts in the code, is a *)
(* sequence of [left, sols], sols a sequence of [right, st], both in the   *)
(* order of insertion.                                                     *)

\* itertools.combinations of the indices lo..n taken k at a time
RECURSIVE Comb(_, _, _)
Comb(lo, n, k) ==
    IF k = 0 THEN << <<>> >>
    ELSE IF lo > n THEN <<>>
    ELSE LET sub == Comb(lo + 1, n, k - 1)
         IN  [i \in 1..Len(sub) |-> <<lo>> \o sub[i]] \o Comb(lo + 1, n, k)

\* atoms[lk][rk], or no entry
HasSolution(atoms, lk, rk) ==
    \E i \in 1..Len(atoms) : atoms[i].left = lk /\ \E j \in 1..Len(atoms[i].sols) : atoms[i].sols[j].right = rk
Solution(atoms, lk, rk) ==
    LET i == CHOOSE x \in 1..Len(atoms) : atoms[x].left = lk
        j == CHOOSE y \in 1..Len(atoms[i].sols) : atoms[i].sols[y].right = rk
    IN  atoms[i].sols[j].st

\* the inner loop of lines 2144-2162: merge the solutions of one combination
Merged(m) == [has |-> TRUE, st |-> m.st, err |-> m.err]

RECURSIVE MergeCombination(_, _, _, _)
MergeCombination(atoms, combined_pairs, i, acc) ==
    IF i > Len(combined_pairs) \/ acc.err # "" THEN acc
    ELSE LET lk == combined_pairs[i][1]
             rk == combined_pairs[i][2]
         IN  IF ~HasSolution(atoms, lk, rk) THEN MergeCombination(atoms, combined_pairs, i + 1, acc)
             ELSE IF ~acc.has
                  THEN MergeCombination(atoms, combined_pairs, i + 1,
                           [has |-> TRUE, st |-> copy(Solution(atoms, lk, rk)), err |-> ""])
             ELSE MergeCombination(atoms, combined_pairs, i + 1,
                      Merged(long_merge(acc.st, Solution(atoms, lk, rk))))

\* the loop of lines 2142-2166 over the generated combinations
Collect(acc, m) ==
    IF m.err # "" THEN [alts |-> acc.alts, err |-> m.err]
    ELSE IF ~m.has THEN acc
    ELSE [alts |-> Append(acc.alts, m.st), err |-> ""]

RECURSIVE Alternatives(_, _, _, _)
Alternatives(atoms, generated_combinations, i, acc) ==
    IF i > Len(generated_combinations) \/ acc.err # "" THEN acc
    ELSE Alternatives(atoms, generated_combinations, i + 1,
             Collect(acc, MergeCombination(atoms, generated_combinations[i], 1,
                                           [has |-> FALSE, st |-> NewSuptop, err |-> ""])))

\* lines 2168-2173: the best of the largest alternatives
BestAlternative(a) ==
    IF a.err # "" THEN Raise(NewSuptop, a.err)
    ELSE IF Len(a.alts) < 1 THEN Raise(NewSuptop, "AssertionError")
    ELSE extract_best_suptop(get_largest(a.alts))

\* lines 2126-2140: the combinations of longest_match pairs that use no atom twice
GeneratedCombinations(left_ligand_keys, right_ligand_keys) ==
    LET nl == Len(left_ligand_keys)
        nr == Len(right_ligand_keys)
        all_pairs == [k \in 1..(nl * nr) |->
                         <<left_ligand_keys[((k - 1) \div nr) + 1],
                           right_ligand_keys[((k - 1) % nr) + 1]>>]
        longest_match == IF nl < nr THEN nl ELSE nr
        distinct(c, side) == Cardinality({all_pairs[c[x]][side] : x \in 1..Len(c)}) = longest_match
        chosen == SelectSeq(Comb(1, nl * nr, longest_match), LAMBDA c : distinct(c, 1) /\ distinct(c, 2))
    IN  [i \in 1..Len(chosen) |-> [x \in 1..Len(chosen[i]) |-> all_pairs[chosen[i][x]]]]

solve_one_combination(atoms) ==
    LET unique_atoms == UNION {{atoms[i].sols[j].right : j \in 1..Len(atoms[i].sols)} : i \in 1..Len(atoms)}
    IN  IF Len(atoms) = 1
        THEN extract_best_suptop(get_largest([j \in 1..Len(atoms[1].sols) |-> atoms[1].sols[j].st]))
        ELSE IF Cardinality(unique_atoms) = 1
        THEN extract_best_suptop(get_largest([i \in 1..Len(atoms) |-> atoms[i].sols[1].st]))
        ELSE BestAlternative(Alternatives(atoms,
                 GeneratedCombinations([i \in 1..Len(atoms) |-> atoms[i].left], IterAtoms(unique_atoms)),
                 1, [alts |-> <<>>, err |-> ""]))

-----------------------------------------------------------------------------
(* _overlay.  The result is [k, st, err]: k = "none" for None, "st" for a  *)
(* topology, "exc" for an exception.  A missing parent (None) is atom 0.   *)
RNone == [k |-> "none", st |-> NewSuptop, err |-> ""]
RSt(st) == [k |-> "st", st |-> st, err |-> ""]
RExc(e) == [k |-> "exc", st |-> NewSuptop, err |-> e]
FromCall(r) == IF r.err # "" THEN RExc(r.err) ELSE RSt(r.st)

\* _overlay without the test of lines 2203-2235
CycleSafeSkipped(n1, n2, parent_n1, parent_n2, suptop) == TRUE

\* lines 2203-2235: a bond of n1 (of n2) into the topology, other than the
\* bond to the parent, must close a cycle that the other ligand closes too
CycleSafe(n1, n2, parent_n1, parent_n2, suptop) ==
    /\ \A b1 \in bonds(n1) :
          (b1[1] # parent_n1 /\ contains_node(suptop, b1[1])) =>
              \E b2 \in bonds(n2) : /\ b2[1] # parent_n2
                                    /\ contains_node(suptop, b2[1])
                                    /\ contains(suptop, <<b1[1], b2[1]>>)
    /\ \A b2 \in bonds(n2) :
          (b2[1] # parent_n2 /\ contains_node(suptop, b2[1])) =>
              \E b1 \in bonds(n1) : /\ b1[1] # parent_n1
                                    /\ contains_node(suptop, b1[1])
                                    /\ contains(suptop, <<b1[1], b2[1]>>)

\* lines 2251-2263: the bonds to pairs already in the topology
ExtraBonds(n1, n2, parent_n1, parent_n2, suptop) ==
    {x \in {<<<<b1[1], b2[1]>>, <<b1[2], b2[2]>>>> :
                b1 \in {y \in bonds(n1) : y[1] # parent_n1},
                b2 \in {y \in bonds(n2) : y[1] # parent_n2}} :
        contains(suptop, x[1])}

\* the element groups of itertools.groupby over the bonds sorted by element
\* (the elements of the catalogue are one letter long)
ElementsOf(bs) ==
    LET E == {element(bs[i][1]) : i \in 1..Len(bs)}
        codes == Ascending({code(e) : e \in E})
    IN  [i \in 1..Len(codes) |-> CHOOSE e \in E : code(e) = codes[i]]
Group(bs, e) == SelectSeq(bs, LAMBDA b : element(b[1]) = e)

\* all_solutions.sort(key=len, reverse=True), a stable sort
RECURSIVE SortByLenDesc(_)
SortByLenDesc(s) ==
    IF s = <<>> THEN <<>>
    ELSE LET r == SortByLenDesc(SubSeq(s, 1, Len(s) - 1))
             x == s[Len(s)]
             k == Cardinality({i \in 1..Len(r) : len(r[i].st) >= len(x.st)})
         IN  SubSeq(r, 1, k) \o <<x>> \o SubSeq(r, k + 1, Len(r))

\* the objects of all_solutions carry an id, their identity
IndexOfId(live, id) == CHOOSE i \in 1..Len(live) : live[i].id = id
HasId(live, id) == \E i \in 1..Len(live) : live[i].id = id
RemoveId(live, id) == SelectSeq(live, LAMBDA x : x.id # id)

\* the inner loop of lines 2386-2406 for sol1 = the object id1, over the
\* reversed snapshot snap of the list; live is the list itself
RECURSIVE MergeInner(_, _, _, _, _)

\* lines 2398-2406: sol1.merge(sol2) and all_solutions.remove(sol2)
MergeInner3(live, id1, snap, j, m) ==
    LET l1 == [live EXCEPT ![IndexOfId(live, id1)].st = m.st]
    IN  IF m.err # "" THEN [live |-> l1, err |-> m.err]
        ELSE IF ~HasId(l1, snap[j].id) THEN [live |-> l1, err |-> "ValueError"]
        ELSE MergeInner(RemoveId(l1, snap[j].id), id1, snap, j + 1, "")

MergeInner2(live, id1, snap, j, c) ==
    IF c.err # "" THEN [live |-> live, err |-> c.err]
    ELSE IF ~c.val THEN MergeInner(live, id1, snap, j + 1, "")
    ELSE MergeInner3(live, id1, snap, j, merge(live[IndexOfId(live, id1)].st, snap[j].st))

MergeInner(live, id1, snap, j, err) ==
    IF j > Len(snap) \/ err # "" THEN [live |-> live, err |-> err]
    ELSE LET sol1 == live[IndexOfId(live, id1)].st
             sol2 == snap[j].st
             id2 == snap[j].id
         IN  IF id2 = id1 THEN MergeInner(live, id1, snap, j + 1, err)
             ELSE IF eq(sol1, sol2)
                  THEN IF HasId(live, id2)
                       THEN MergeInner(RemoveId(live, id2), id1, snap, j + 1, err)
                       ELSE [live |-> live, err |-> "ValueError"]
             ELSE IF is_subgraph_of(sol2, sol1) THEN MergeInner(live, id1, snap, j + 1, err)
             ELSE MergeInner2(live, id1, snap, j, is_consistent_with(sol1, sol2))

\* the outer loop of line 2385: a for loop over a list that shrinks while
\* it runs visits the positions 0, 1, 2, ... of the list as it then is
RECURSIVE MergeOuter(_, _)
MergeOuter(live, i) ==
    IF i > Len(live) THEN [live |-> live, err |-> ""]
    ELSE Bind(MergeInner(live, live[i].id, Reverse(live), 1, ""), LAMBDA r :
             IF r.err # "" THEN r ELSE MergeOuter(r.live, i + 1))

RECURSIVE Overlay(_, _, _, _, _, _)

\* lines 2299-2321: the solutions of the left neighbours of one element
\* against the right neighbours of that element; None results are dropped
SolutionsForLeft(n1, n2, n1b, n2_bonds, suptop) ==
    LET all == [j \in 1..Len(n2_bonds) |->
                   [right |-> n2_bonds[j][1],
                    res |-> Overlay(n1b[1], n2_bonds[j][1], n1, n2,
                                    <<n1b[2], n2_bonds[j][2]>>, copy(suptop))]]
        kept == SelectSeq(all, LAMBDA x : x.res.k # "none")
    IN  [j \in 1..Len(kept) |->
            [right |-> kept[j].right, st |-> kept[j].res.st, err |-> kept[j].res.err]]

AtomTypeSolutions(n1, n2, n1_bonds, n2_bonds, suptop) ==
    LET all == [i \in 1..Len(n1_bonds) |->
                   [left |-> n1_bonds[i][1],
                    sols |-> SolutionsForLeft(n1, n2, n1_bonds[i], n2_bonds, suptop)]]
    IN  SelectSeq(all, LAMBDA x : Len(x.sols) > 0)

\* lines 2265-2323: one entry per element that both atoms have neighbours of
Combinations(n1, n2, parent_n1, parent_n2, suptop) ==
    LET n1_bonds_no_parent == SelectSeq(IterBonds(n1), LAMBDA b : b[1] # parent_n1)
        n2_bonds_no_parent == SelectSeq(IterBonds(n2), LAMBDA b : b[1] # parent_n2)
        n1_types == ElementsOf(n1_bonds_no_parent)
        common == SelectSeq(n1_types, LAMBDA e : Group(n2_bonds_no_parent, e) # <<>>)
        all == [i \in 1..Len(common) |->
                   AtomTypeSolutions(n1, n2, Group(n1_bonds_no_parent, common[i]),
                                     Group(n2_bonds_no_parent, common[i]), suptop)]
    IN  SelectSeq(all, LAMBDA x : Len(x) # 0)

\* the first exception raised by a recursive call, if any
FirstError(combinations) ==
    LET errs == {<<i, j, k>> \in (1..Len(combinations)) \X (1..4) \X (1..4) :
                    /\ j <= Len(combinations[i])
                    /\ k <= Len(combinations[i][j].sols)
                    /\ combinations[i][j].sols[k].err # ""}
    IN  IF errs = {} THEN ""
        ELSE LET e == CHOOSE x \in errs : TRUE
             IN  combinations[e[1]][e[2]].sols[e[3]].err

\* lines 2336-2418: solve each element, merge the solutions that agree and
\* return the best of the largest
BestMerged(m) ==
    IF m.err # "" THEN RExc(m.err)
    ELSE FromCall(extract_best_suptop(get_largest([i \in 1..Len(m.live) |-> m.live[i].st])))

MergeSolved(solved) ==
    IF \E i \in 1..Len(solved) : solved[i].err # ""
    THEN RExc(solved[CHOOSE i \in 1..Len(solved) : solved[i].err # ""].err)
    ELSE BestMerged(MergeOuter(
             SortByLenDesc([i \in 1..Len(solved) |-> [id |-> i, st |-> solved[i].st]]), 1))

MergeSolutions(combinations) ==
    MergeSolved([i \in 1..Len(combinations) |-> solve_one_combination(combinations[i])])

\* lines 2325-2334: no neighbours to match, or the neighbours of one element
Solve(st, combinations) ==
    IF FirstError(combinations) # "" THEN RExc(FirstError(combinations))
    ELSE IF Len(combinations) = 0 THEN RSt(st)
    ELSE IF Len(combinations) = 1 THEN FromCall(solve_one_combination(combinations[1]))
    ELSE MergeSolutions(combinations)

Overlay(n1, n2, parent_n1, parent_n2, bond_types, suptop) ==
    IF contains_any_node(suptop, {n1, n2}) THEN RNone
    ELSE IF opts.use_general_type /\ ~same_element(n1, n2) THEN RNone
    ELSE IF ~opts.use_general_type /\ ~same_type(n1, n2) THEN RNone
    ELSE IF ~CycleSafe(n1, n2, parent_n1, parent_n2, suptop) THEN RNone
    ELSE IF cycle_spans_multiple_cycles(suptop) THEN RNone
    ELSE LET a == add_node_pair(suptop, <<n1, n2>>)
             l == IF parent_n1 = 0 /\ parent_n2 = 0 THEN a
                  ELSE link_with_parent(a.st, <<n1, n2>>, <<parent_n1, parent_n2>>, bond_types)
             x == link_pairs(l.st, <<n1, n2>>, ExtraBonds(n1, n2, parent_n1, parent_n2, l.st))
         IN  IF a.err # "" THEN RExc(a.err)
             ELSE IF l.err # "" THEN RExc(l.err)
             ELSE IF x.err # "" THEN RExc(x.err)
             ELSE Solve(x.st, Combinations(n1, n2, parent_n1, parent_n2, x.st))

-----------------------------------------------------------------------------
(* The options of superimpose_topologies, with their default values.       *)
DefaultOptions ==
    [use_general_type |-> TRUE, use_only_element |-> FALSE, use_charges |-> TRUE,
     ignore_charges_completely |-> FALSE, net_charge_filter |-> TRUE,
     partial_rings_allowed |-> TRUE, disjoint_components |-> TRUE,
     redistribute_charges_over_unmatched |-> TRUE, starting_pairs_heuristics |-> TRUE,
     ignore_bond_types |-> TRUE, force_mismatch |-> <<>>]

\* the atom types and the charges the ligand files give
InitialTypes(m) ==
    [a \in (1..Len(m.L)) \cup {10 + i : i \in 1..Len(m.R)} |->
        IF a <= 10 THEN m.L[a].type ELSE m.R[a - 10].type]
InitialCharges(m) ==
    [a \in (1..Len(m.L)) \cup {10 + i : i \in 1..Len(m.R)} |->
        IF a <= 10 THEN m.L[a].charge ELSE m.R[a - 10].charge]

-----------------------------------------------------------------------------
(* Specification Spec: _overlay from any starting pair, and the methods of *)
(* SuperimposedTopology called on the topologies it returned.              *)
MaxSuptops == 2
MaxOps == 3

Init ==
    /\ mol \in Range(Mols)
    /\ setOrder \in {"asc", "desc"}
    /\ atype = InitialTypes(mol)
    /\ charge = InitialCharges(mol)
    /\ suptops = <<>>
    /\ pc = "api"
    /\ seeds = <<>>
    /\ opts \in {[DefaultOptions EXCEPT !.use_general_type = b] : b \in BOOLEAN}
    /\ raised = ""
    /\ nops = 0

Frame == UNCHANGED <<mol, setOrder, atype, charge, pc, seeds, opts>>

CanCall == pc = "api" /\ raised = "" /\ nops < MaxOps

\* Objects are values in this model, so what two objects share is recorded:
\* st.shared.attrs holds <<a, j>> when the container st.a is the very
\* container of object j (suptops[j]), st.shared.sets holds <<pair, j>> when
\* the set matched_pairs_bonds[pair] is the very set object j has under that
\* pair.  The relation is kept symmetric and transitive.

\* the containers add_node_pair, link_with_parent, link_pairs and
\* remove_node_pair write in place
Written == {"matched_pairs", "nodes", "nodes_added_log", "matched_pairs_bonds"}

\* object i and the objects that share the entry key with it
SharedIn(rel, i, keys) ==
    UNION {{<<k, j>> : j \in {i} \cup {x[2] : x \in {y \in rel : y[1] = k}}} : k \in keys}

\* __copy__ with copied_bonds[pair] = bonded_pairs_set, the sets not copied
CopySharesBondSets(st, i) ==
    LET copied == {"matched_pairs", "nodes", "nodes_added_log", "matched_pairs_bonds"}
        copied_sets == {}
    IN  [attrs |-> SharedIn(st.shared.attrs, i, Written \ copied),
         sets |-> SharedIn(st.shared.sets, i, DOMAIN st.matched_pairs_bonds \ copied_sets)]

\* what the object __copy__ returns shares with its source, object i: after
\* __dict__.update every attribute is the source's; lines 1057-1059 and 1066
\* give the copy its own matched_pairs, nodes, nodes_added_log and
\* matched_pairs_bonds, and line 1064 its own copy of every bond set
CopyShares(st, i) ==
    LET copied == {"matched_pairs", "nodes", "nodes_added_log", "matched_pairs_bonds"}
        copied_sets == DOMAIN st.matched_pairs_bonds
    IN  [attrs |-> SharedIn(st.shared.attrs, i, Written \ copied),
         sets |-> SharedIn(st.shared.sets, i, DOMAIN st.matched_pairs_bonds \ copied_sets)]

\* object j after object i, of value old, was written in place and has the
\* value new: j sees the writes to the containers it shares with i; a pair
\* deleted from the dictionary of i is no longer shared
SeenBy(j, i, old, new) ==
    LET gone == DOMAIN old.matched_pairs_bonds \ DOMAIN new.matched_pairs_bonds
        same(a) == j = i \/ <<a, i>> \in suptops[j].shared.attrs
        lost == {i} \cup {m \in 1..Len(suptops) :
                             <<"matched_pairs_bonds", i>> \in suptops[m].shared.attrs}
    IN  [suptops[j] EXCEPT
            !.matched_pairs = IF same("matched_pairs") THEN new.matched_pairs ELSE @,
            !.nodes = IF same("nodes") THEN new.nodes ELSE @,
            !.nodes_added_log = IF same("nodes_added_log") THEN new.nodes_added_log ELSE @,
            !.matched_pairs_bonds =
                IF same("matched_pairs_bonds") THEN new.matched_pairs_bonds
                ELSE [k \in DOMAIN @ |->
                         IF <<k, i>> \in suptops[j].shared.sets
                            /\ k \in DOMAIN new.matched_pairs_bonds
                         THEN new.matched_pairs_bonds[k] ELSE @[k]],
            !.shared = [attrs |-> @.attrs,
                        sets |-> {x \in @.sets :
                                     ~(x[1] \in gone /\ (j \in lost \/ x[2] \in lost))}]]

\* the result of a call replaces the object; the objects that share a
\* container with it see what was written; an exception ends the run
Store(i, r, kind) ==
    /\ suptops' = [j \in 1..Len(suptops) |->
                      IF j = i
                      THEN [r.st EXCEPT !.hist = @ \cup {kind},
                                        !.shared = SeenBy(i, i, suptops[i], r.st).shared]
                      ELSE SeenBy(j, i, suptops[i], r.st)]
    /\ raised' = r.err
    /\ nops' = nops + 1
    /\ Frame

\* _overlay(node1, node2, None, None, (None, None), SuperimposedTopology(top1, top2))
\* (a call of _overlay makes a new object and touches no other, so the runs
\* are explored with the calls of _overlay first; a call that returns None
\* or raises leaves no object behind)
OverlaySeed(n1, n2) ==
    /\ CanCall
    /\ Len(suptops) < MaxSuptops
    /\ \A i \in 1..Len(suptops) : suptops[i].hist = {"overlay"}
    /\ Bind(Overlay(n1, n2, 0, 0, <<>>, NewSuptop), LAMBDA r :
           /\ suptops' = IF r.k = "st" THEN Append(suptops, [r.st EXCEPT !.hist = {"overlay"}])
                         ELSE suptops
           /\ raised' = r.err)
    /\ nops' = nops + 1
    /\ Frame

CopyCall(i) ==
    /\ CanCall
    /\ Len(suptops) < MaxSuptops
    /\ Bind(CopyShares(suptops[i], i), LAMBDA sh :
           suptops' = Append(
               [j \in 1..Len(suptops) |->
                   [suptops[j] EXCEPT !.shared =
                       [attrs |-> @.attrs \cup {<<x[1], Len(suptops) + 1>> :
                                                  x \in {y \in sh.attrs : y[2] = j}},
                        sets |-> @.sets \cup {<<x[1], Len(suptops) + 1>> :
                                                x \in {y \in sh.sets : y[2] = j}}]]],
               [copy(suptops[i]) EXCEPT !.hist = @ \cup {"copy"}, !.shared = sh]))
    /\ nops' = nops + 1
    /\ UNCHANGED raised
    /\ Frame

AddNodePair(i, l, r) == CanCall /\ Store(i, add_node_pair(suptops[i], <<l, r>>), "add")

RemoveNodePair(i, pair) == CanCall /\ Store(i, remove_node_pair(suptops[i], pair), "remove")

\* link_with_parent and link_pairs are called, as in _overlay, for two pairs
\* of the topology and with the orders of the two bonds
LinkWithParent(i, pair, parent) ==
    /\ CanCall
    /\ bound_to(pair[1], parent[1]) /\ bound_to(pair[2], parent[2])
    /\ Store(i, link_with_parent(suptops[i], pair, parent,
                    <<bond_order(pair[1], parent[1]), bond_order(pair[2], parent[2])>>), "link")

LinkPairs(i, pair, other) ==
    /\ CanCall
    /\ bound_to(pair[1], other[1]) /\ bound_to(pair[2], other[2])
    /\ Store(i, link_pairs(suptops[i], pair,
                    {<<other, <<bond_order(pair[1], other[1]), bond_order(pair[2], other[2])>>>>}), "link")

MergeCall(i, j) ==
    /\ CanCall
    /\ i # j
    /\ Bind(merge(suptops[i], suptops[j]), LAMBDA r :
           Store(i, [st |-> [r.st EXCEPT !.hist = @ \cup suptops[j].hist], err |-> r.err], "merge"))

Next ==
    \/ \E n1 \in top1, n2 \in top2 : OverlaySeed(n1, n2)
    \/ \E i \in 1..Len(suptops) : CopyCall(i)
    \/ \E i \in 1..Len(suptops), l \in top1, r \in top2 : AddNodePair(i, l, r)
    \/ \E i \in 1..Len(suptops) : \E pair \in Range(suptops[i].matched_pairs) : RemoveNodePair(i, pair)
    \/ \E i \in 1..Len(suptops) : \E pair, parent \in Range(suptops[i].matched_pairs) :
          LinkWithParent(i, pair, parent)
    \/ \E i \in 1..Len(suptops) : \E pair, other \in Range(suptops[i].matched_pairs) :
          LinkPairs(i, pair, other)
    \/ \E i, j \in 1..Len(suptops) : MergeCall(i, j)

Spec == Init /\ [][Next]_vars

-----------------------------------------------------------------------------
(* get_starting_configurations and the seed loop of _superimpose_topologies. *)

\* the atom types; a Python set of type strings is iterated in an arbitrary
\* order, for which the model takes this order or its reverse
Types == <<"C", "C3", "CA", "CB", "CC", "CD", "H", "HC", "N", "O", "OH">>
TypeIndex(t) == CHOOSE i \in 1..Len(Types) : Types[i] = t
IterTypesIn(order, S) ==
    LET s == IF order = "asc" THEN Ascending({TypeIndex(t) : t \in S})
             ELSE Reverse(Ascending({TypeIndex(t) : t \in S}))
    IN  [i \in 1..Len(s) |-> Types[s[i]]]
IterTypes(S) == IterTypesIn(setOrder, S)

\* top1_nodes and top2_nodes, the lists of the atoms of the two ligands
top1_nodes == Ascending(top1)
top2_nodes == Ascending(top2)

\* itertools.product of two lists
Product(l, r) ==
    [k \in 1..(Len(l) * Len(r)) |-> <<l[((k - 1) \div Len(r)) + 1], r[((k - 1) % Len(r)) + 1]>>]

Min(a, b) == IF a < b THEN a ELSE b

\* sorted(paired_by_type, key=min of the two lengths), a stable sort
RECURSIVE SortByRarity(_)
SortByRarity(s) ==
    IF s = <<>> THEN <<>>
    ELSE LET r == SortByRarity(SubSeq(s, 1, Len(s) - 1))
             x == s[Len(s)]
             k == Cardinality({i \in 1..Len(r) :
                      Min(Len(r[i].l), Len(r[i].r)) <= Min(Len(x.l), Len(x.r))})
         IN  SubSeq(r, 1, k) \o <<x>> \o SubSeq(r, k + 1, Len(r))

\* the loop of lines 2983-2988
RECURSIVE EmitPairs(_, _, _, _, _)
EmitPairs(sorted, i, added_counter, desired, acc) ==
    IF i > Len(sorted) THEN acc
    ELSE LET more == acc \o Product(sorted[i].l, sorted[i].r)
             n == added_counter + Min(Len(sorted[i].l), Len(sorted[i].r))
         IN  IF n > desired THEN more ELSE EmitPairs(sorted, i + 1, n, desired, more)

\* get_starting_configurations(left_atoms, right_atoms, fraction=0.2,
\* filter_ring_c=True); int(0.2 * n) is n \div 5.  (No two hydrogens of the
\* catalogue are bonded, so the cycles of the right graph, built from the
\* heavy atoms and their bonds, are the cycles of the ligand.)
StartingConfigurations(order) ==
    LET left_atoms_noh == SelectSeq(top1_nodes, LAMBDA a : element(a) # "H")
        right_atoms_noh == SelectSeq(top2_nodes, LAMBDA a : element(a) # "H")
        common_all == {atype[a] : a \in Range(left_atoms_noh)} \cap
                      {atype[a] : a \in Range(right_atoms_noh)}
        per_type_max_counter(t) ==
            Min(Cardinality({a \in top1 : atype[a] = t}), Cardinality({a \in top2 : atype[a] = t}))
        order_all == IterTypesIn(order, common_all)
        max_overlap_size == SumSeq([i \in 1..Len(order_all) |-> per_type_max_counter(order_all[i])])
        ring_l == {a \in UNION CycleBasis(top1) : element(a) = "C"}
        ring_r == {a \in UNION CycleBasis(top2) : element(a) = "C"}
        left_atoms_starting == SelectSeq(left_atoms_noh, LAMBDA a : a \notin ring_l)
        right_atoms_starting == SelectSeq(right_atoms_noh, LAMBDA a : a \notin ring_r)
        common_types == IterTypesIn(order, {atype[a] : a \in Range(left_atoms_starting)} \cap
                                  {atype[a] : a \in Range(right_atoms_starting)})
        paired_by_type ==
            [i \in 1..Len(common_types) |->
                [l |-> SelectSeq(left_atoms_starting, LAMBDA a : atype[a] = common_types[i]),
                 r |-> SelectSeq(right_atoms_starting, LAMBDA a : atype[a] = common_types[i])]]
        desired_number_of_pairs == max_overlap_size \div 5
    IN  EmitPairs(SortByRarity(paired_by_type), 1, 0, desired_number_of_pairs, <<>>)

get_starting_configurations == StartingConfigurations(setOrder)

\* seen
seen(suptop, sts) == \E i \in 1..Len(sts) : eq(sts[i], suptop)

\* sub_graph_of
sub_graph_of(candidate_suptop, sts) ==
    \E i \in 1..Len(sts) : is_subgraph_of(candidate_suptop, sts[i])

\* list.remove of the object at index k
RemoveAt(s, k) == SubSeq(s, 1, k - 1) \o SubSeq(s, k + 1, Len(s))

\* is_mirror_of_one: [found, sts, err].  The better of the candidate and the
\* first mirror found takes the other as a mirror and goes to the end of the
\* list; when the object of the list wins it is then added to itself:
\* add_mirror_suptop(self) extends its mirrors by themselves, empties them
\* (suptop.mirrors = [] is self.mirrors) and appends the object to them
is_mirror_of_one(suptop, sts) ==
    IF ~\E k \in 1..Len(sts) : is_mirror_of(sts[k], suptop)
    THEN [found |-> FALSE, sts |-> sts, err |-> ""]
    ELSE LET k == CHOOSE x \in 1..Len(sts) :
                      /\ is_mirror_of(sts[x], suptop)
                      /\ \A y \in 1..(x - 1) : ~is_mirror_of(sts[y], suptop)
             next_suptop == sts[k]
             pair == <<suptop, next_suptop>>
             best_suptop(e) ==
                 IF BestIndex(pair) = 1 THEN add_mirror_suptop(e.st, next_suptop)
                 ELSE Bind(add_mirror_suptop(e.st, suptop), LAMBDA won :
                          IF \E i \in 1..Len(won.mirrors) : eq(won, Deref(won, won.mirrors[i]))
                          THEN won
                          ELSE [won EXCEPT !.mirrors = <<SelfRef>>])
         IN  Bind(extract_best_suptop(pair), LAMBDA e :
                 IF e.err # "" THEN [found |-> FALSE, sts |-> sts, err |-> e.err]
                 ELSE [found |-> TRUE, sts |-> Append(RemoveAt(sts, k), best_suptop(e)), err |-> ""])

\* remove_candidates_subgraphs: [removed, sts]
remove_candidates_subgraphs(candidate_suptop, sts) ==
    [removed |-> \E i \in 1..Len(sts) : is_subgraph_of(sts[i], candidate_suptop),
     sts |-> SelectSeq(sts, LAMBDA x : ~is_subgraph_of(x, candidate_suptop))]

\* solve_partial_overlaps, from the last object of the list to the first:
\* [ignore, sts, cand]; the equal-length branch sets a local flag that is
\* never returned, so only a larger object of the list makes it return True
RECURSIVE solve_partial_overlaps(_, _, _)
solve_partial_overlaps(candidate_suptop, sts, i) ==
    IF i = 0 THEN [ignore |-> FALSE, sts |-> sts, cand |-> candidate_suptop]
    ELSE LET suptop == sts[i]
         IN  IF ~contains_any_node_from(suptop, candidate_suptop)
             THEN solve_partial_overlaps(candidate_suptop, sts, i - 1)
             ELSE IF len(suptop) > len(candidate_suptop)
                  THEN [ignore |-> TRUE, sts |-> sts, cand |-> candidate_suptop]
             ELSE IF len(suptop) < len(candidate_suptop)
                  THEN solve_partial_overlaps(candidate_suptop, RemoveAt(sts, i), i - 1)
             ELSE IF RmsdLess(suptop, candidate_suptop)
                  THEN solve_partial_overlaps(candidate_suptop,
                           [sts EXCEPT ![i] = add_alternative_mapping(suptop, candidate_suptop)], i - 1)
             ELSE solve_partial_overlaps(add_alternative_mapping(candidate_suptop, suptop),
                                         RemoveAt(sts, i), i - 1)

\* the body of the loop of lines 3027-3076 for one starting pair: [sts, err]
Candidate(candidate_suptop, sts) ==
    IF seen(candidate_suptop, sts) THEN [sts |-> sts, err |-> ""]
    ELSE IF sub_graph_of(candidate_suptop, sts) THEN [sts |-> sts, err |-> ""]
    ELSE Bind(is_mirror_of_one(candidate_suptop, sts), LAMBDA m :
        IF m.err # "" THEN [sts |-> sts, err |-> m.err]
        ELSE IF m.found THEN [sts |-> m.sts, err |-> ""]
        ELSE Bind(remove_candidates_subgraphs(candidate_suptop, sts), LAMBDA s :
            IF s.removed THEN [sts |-> Append(s.sts, candidate_suptop), err |-> ""]
            ELSE Bind(solve_partial_overlaps(candidate_suptop, sts, Len(sts)), LAMBDA o :
                IF o.ignore THEN [sts |-> o.sts, err |-> ""]
                ELSE [sts |-> Append(o.sts, o.cand), err |-> ""])))

SeedLoopBody(node1, node2, sts) ==
    Bind(Overlay(node1, node2, 0, 0, <<>>, NewSuptop), LAMBDA r :
        IF r.k = "exc" THEN [sts |-> sts, err |-> r.err]
        ELSE IF r.k = "none" \/ len(r.st) = 0 THEN [sts |-> sts, err |-> ""]
        ELSE Candidate([r.st EXCEPT !.hist = {"overlay"}], sts))

\* lines 3079-3087: drop the topologies whose left atoms all have type H
RemoveHydrogenOnly(sts) ==
    SelectSeq(sts, LAMBDA st : \E i \in 1..len(st) : atype[st.matched_pairs[i][1]] # "H")

-----------------------------------------------------------------------------
(* The post-filters of superimpose_topologies.  Charges are integers, in   *)
(* units of 1/120000 of an electron charge; the charges of the catalogue   *)
(* make every division of redistribute_charges exact.                      *)

pair_charge_atol == 12000
net_charge_threshold == 12000
MAX_CIRCLE_SIZE == 7

\* np.isclose(a, b, atol=atol): |a - b| <= atol + 1e-5 * |b|
isclose(a, b, atol) == Abs(a - b) - atol <= Abs(b) \div 100000

\* AtomNode.eq
AtomEq(a, b, atol) == atype[a] = atype[b] /\ isclose(charge[a], charge[b], atol)

\* remove_node_pair called by a post-filter; filtered keeps what was removed
FilterRemove(st, pair) ==
    LET r == remove_node_pair(st, pair)
    IN  [st |-> [r.st EXCEPT !.filtered = @ \cup {pair}, !.hist = @ \cup {"remove"}], err |-> r.err]

\* matched_atom_types_are_the_same: the pairs are visited from the last to
\* the first, and a pair of two different types is removed
RECURSIVE matched_atom_types_are_the_same(_, _)
matched_atom_types_are_the_same(st, todo) ==
    IF todo = <<>> THEN Ok(st)
    ELSE IF same_type(Head(todo)[1], Head(todo)[2])
         THEN matched_atom_types_are_the_same(st, Tail(todo))
    ELSE LET r == FilterRemove(st, Head(todo))
         IN  IF r.err # "" THEN r ELSE matched_atom_types_are_the_same(r.st, Tail(todo))

\* list.sort(key=lambda x: x[1], reverse=True), a stable sort
RECURSIVE SortByChargeDesc(_)
SortByChargeDesc(s) ==
    IF s = <<>> THEN <<>>
    ELSE LET r == SortByChargeDesc(SubSeq(s, 1, Len(s) - 1))
             x == s[Len(s)]
             k == Cardinality({i \in 1..Len(r) : r[i][2] >= x[2]})
         IN  SubSeq(r, 1, k) \o <<x>> \o SubSeq(r, k + 1, Len(r))

\* the loop of refine_against_charges over the reversed list of pairs
RECURSIVE RefineLoop(_, _, _)
RefineLoop(st, todo, atol) ==
    IF todo = <<>> THEN Ok(st)
    ELSE IF AtomEq(Head(todo)[1], Head(todo)[2], atol) THEN RefineLoop(st, Tail(todo), atol)
    ELSE LET r == FilterRemove(st, Head(todo))
             dq == Abs(charge[Head(todo)[2]] - charge[Head(todo)[1]])
         IN  IF r.err # "" THEN r
             ELSE RefineLoop([r.st EXCEPT !.removed_pairs_with_charge_difference =
                                  Append(@, <<Head(todo), dq>>)], Tail(todo), atol)

\* refine_against_charges(atol)
refine_against_charges(st, atol) ==
    LET r == RefineLoop(st, Reverse(st.matched_pairs), atol)
    IN  IF r.err # "" THEN r
        ELSE Ok([r.st EXCEPT !.removed_pairs_with_charge_difference = SortByChargeDesc(@)])

\* get_net_charge
get_net_charge(st) ==
    SumSeq([i \in 1..len(st) |-> charge[st.matched_pairs[i][1]] - charge[st.matched_pairs[i][2]]])

\* get_worst_match_charge, for a topology that has pairs
get_worst_match_charge(st) ==
    LET D == {Abs(charge[st.matched_pairs[i][1]] - charge[st.matched_pairs[i][2]]) : i \in 1..len(st)}
    IN  CHOOSE d \in D : \A x \in D : x <= d

\* remove_worst_charge_match: [st, err, largest_difference]
remove_worst_charge_match(st) ==
    LET largest_difference == get_worst_match_charge(st)
        k == CHOOSE i \in 1..len(st) :
                 /\ Abs(charge[st.matched_pairs[i][1]] - charge[st.matched_pairs[i][2]]) = largest_difference
                 /\ \A j \in 1..(i - 1) :
                       Abs(charge[st.matched_pairs[j][1]] - charge[st.matched_pairs[j][2]]) # largest_difference
        worst_match == st.matched_pairs[k]
        r == FilterRemove(st, worst_match)
    IN  IF len(st) = 0 THEN [st |-> st, err |-> "ValueError", largest_difference |-> 0]
        ELSE IF largest_difference = 0 THEN [st |-> st, err |-> "", largest_difference |-> 0]
        ELSE IF r.err # "" THEN [st |-> r.st, err |-> r.err, largest_difference |-> largest_difference]
        ELSE [st |-> [r.st EXCEPT !.removed_due_to_net_charge =
                          Append(@, <<worst_match, largest_difference>>)],
              err |-> "", largest_difference |-> largest_difference]

RECURSIVE NetChargeLoop(_)
\* the while loop without the test of lines 2604-2608: a topology that lost
\* its last pair stays in the list
NetChargeLoopKeepsEmpty(st) ==
    IF ~(Abs(get_net_charge(st)) > net_charge_threshold) THEN [st |-> st, err |-> "", dropped |-> FALSE]
    ELSE LET r == remove_worst_charge_match(st)
         IN  IF r.err # "" THEN [st |-> r.st, err |-> r.err, dropped |-> FALSE]
             ELSE IF r.largest_difference = 0 THEN [st |-> r.st, err |-> "Exception", dropped |-> FALSE]
             ELSE NetChargeLoop(r.st)

\* the while loop of lines 2599-2608 for one topology: [st, err, dropped]
NetChargeLoop(st) ==
    IF ~(Abs(get_net_charge(st)) > net_charge_threshold) THEN [st |-> st, err |-> "", dropped |-> FALSE]
    ELSE LET r == remove_worst_charge_match(st)
         IN  IF r.err # "" THEN [st |-> r.st, err |-> r.err, dropped |-> FALSE]
             ELSE IF r.largest_difference = 0 THEN [st |-> r.st, err |-> "Exception", dropped |-> FALSE]
             ELSE IF len(r.st) = 0 THEN [st |-> r.st, err |-> "", dropped |-> TRUE]
             ELSE NetChargeLoop(r.st)

\* get_pair_with_atom, for a matched atom
get_pair_with_atom(st, atom) ==
    st.matched_pairs[CHOOSE i \in 1..len(st) :
        /\ atom \in {st.matched_pairs[i][1], st.matched_pairs[i][2]}
        /\ \A j \in 1..(i - 1) : atom \notin {st.matched_pairs[j][1], st.matched_pairs[j][2]}]

\* are_matched_sets, for a set of matched left atoms
are_matched_sets(st, l_atoms, r_atoms) ==
    /\ Cardinality(l_atoms) = Cardinality(r_atoms)
    /\ \A atom \in l_atoms : get_pair_with_atom(st, atom)[2] \in r_atoms

\* _remove_unmatched_ring_atoms for the atoms of the circles, one after
\* another: [st, err, removed]
RECURSIVE RemoveRingAtoms(_, _, _)
RemoveRingAtoms(st, atoms, removed) ==
    IF atoms = <<>> THEN [st |-> st, err |-> "", removed |-> removed]
    ELSE IF ~contains_node(st, Head(atoms)) THEN RemoveRingAtoms(st, Tail(atoms), removed)
    ELSE Bind(get_pair_with_atom(st, Head(atoms)), LAMBDA pair :
         Bind(FilterRemove(st, pair), LAMBDA r :
             IF r.err # "" THEN [st |-> r.st, err |-> r.err, removed |-> removed]
             ELSE RemoveRingAtoms([r.st EXCEPT !.removed_because_unmatched_rings = Append(@, pair)],
                                  Tail(atoms), Append(removed, pair))))

\* the while loop of enforce_no_partial_rings: the circles are sets of atoms,
\* correct_circles a set of <<left circle, right circle>>
RECURSIVE RingLoop(_, _, _, _)
RingLoop(st, l_circles, r_circles, correct_circles) ==
    Bind(RemoveRingAtoms(st, IterAtoms(UNION l_circles), <<>>), LAMBDA l :
    Bind(RemoveRingAtoms(l.st, IterAtoms(UNION r_circles), <<>>), LAMBDA r :
    Bind({c \in correct_circles :
             \/ \E i \in 1..Len(l.removed) : l.removed[i][1] \in c[1]
             \/ \E i \in 1..Len(r.removed) : r.removed[i][2] \in c[2]}, LAMBDA affected :
        IF l.err # "" THEN Raise(l.st, l.err)
        ELSE IF r.err # "" THEN Raise(r.st, r.err)
        ELSE IF Len(l.removed) = 0 /\ Len(r.removed) = 0 THEN Ok(r.st)
        ELSE RingLoop(r.st, l_circles \cup {c[1] : c \in affected},
                      r_circles \cup {c[2] : c \in affected}, correct_circles))))

\* enforce_no_partial_rings
SmallCircles(S) == {c \in CycleBasis(S) : Cardinality(c) <= MAX_CIRCLE_SIZE}

enforce_no_partial_rings(st) ==
    Bind(SmallCircles(LeftNodes(st)), LAMBDA l_matched_circles :
    Bind(SmallCircles(RightNodes(st)), LAMBDA r_matched_circles :
    Bind({c \in l_matched_circles \X r_matched_circles : are_matched_sets(st, c[1], c[2])},
         LAMBDA correct_circles :
        IF \/ l_matched_circles # {c[1] : c \in correct_circles}
           \/ r_matched_circles # {c[2] : c \in correct_circles}
        THEN Raise(st, "AssertionError")
        ELSE RingLoop(st, SmallCircles(top1) \ {c[1] : c \in correct_circles},
                      SmallCircles(top2) \ {c[2] : c \in correct_circles}, correct_circles))))

\* the pairs of the connected component of the pair graph that holds F
RECURSIVE PairReach(_, _)
PairReach(st, F) ==
    LET G == F \cup {x[1] : x \in UNION {st.matched_pairs_bonds[p] :
                                               p \in F \cap DOMAIN st.matched_pairs_bonds}}
    IN  IF G = F THEN F ELSE PairReach(st, G)

\* list(nx.connected_components(g)): the components in the order of their
\* first pair in matched_pairs
RECURSIVE PairComponents(_, _)
PairComponents(st, todo) ==
    IF todo = <<>> THEN <<>>
    ELSE LET cc == PairReach(st, {Head(todo)})
         IN  <<cc>> \o PairComponents(st, SelectSeq(todo, LAMBDA p : p \notin cc))

\* remove the pairs of the components to remove, each component in the
\* order of matched_pairs
RECURSIVE RemoveComponents(_, _)
RemoveComponents(st, todo) ==
    IF todo = <<>> THEN Ok(st)
    ELSE Bind(FilterRemove(st, Head(todo)), LAMBDA r :
             IF r.err # "" THEN r
             ELSE RemoveComponents([r.st EXCEPT !.removed_because_disjointed_cc = Append(@, Head(todo))],
                                   Tail(todo)))

\* largest_cc_survives with no component removed
largest_cc_survives_keeps_all(st) == Ok(st)

\* largest_cc_survives
largest_cc_survives(st) ==
    LET known == /\ DOMAIN st.matched_pairs_bonds \subseteq Pairs(st)
                 /\ \A p \in DOMAIN st.matched_pairs_bonds :
                       \A x \in st.matched_pairs_bonds[p] : x[1] \in Pairs(st)
        todo(cc) == SelectSeq(st.matched_pairs, LAMBDA p : p \in cc)
        RECURSIVE Flat(_)
        Flat(s) == IF s = <<>> THEN <<>> ELSE todo(Head(s)) \o Flat(Tail(s))
        remove_ccs(ccs, largest_cc) ==
            SelectSeq(Reverse(ccs), LAMBDA cc : Cardinality(cc) < largest_cc)
                \o Tail(SelectSeq(ccs, LAMBDA cc : Cardinality(cc) = largest_cc))
    IN  IF ~known THEN Raise(st, "Exception")
        ELSE IF len(st) = 0 THEN Raise(st, "ValueError")
        ELSE Bind(PairComponents(st, st.matched_pairs), LAMBDA ccs :
                 IF Len(ccs) > 1
                 THEN RemoveComponents(st, Flat(remove_ccs(ccs,
                          CHOOSE n \in {Cardinality(ccs[i]) : i \in 1..Len(ccs)} :
                              \A i \in 1..Len(ccs) : Cardinality(ccs[i]) <= n)))
                 ELSE Ok(st))

\* validate_charges: np.testing.assert_almost_equal(a, b, decimal=2) passes
\* when |a - b| < 1.5e-2, 1800 units; round() is the nearest whole charge
validate_charges ==
    LET whole_left_charge == SumSeq([i \in 1..Len(top1_nodes) |-> charge[top1_nodes[i]]])
        whole_right_charge == SumSeq([i \in 1..Len(top2_nodes) |-> charge[top2_nodes[i]]])
        off(q) == Min(q % 120000, 120000 - (q % 120000))
    IN  /\ off(whole_left_charge) < 1800
        /\ off(whole_right_charge) < 1800
        /\ Abs(whole_left_charge - whole_right_charge) < 1800

\* get_disappearing_atoms and get_appearing_atoms
get_disappearing_atoms(st) == SelectSeq(top1_nodes, LAMBDA a : a \notin LeftNodes(st))
get_appearing_atoms(st) == SelectSeq(top2_nodes, LAMBDA a : a \notin RightNodes(st))

\* the averaging loop of redistribute_charges: [q, l, r], the charges and
\* the two totals taken off the matched atoms
RECURSIVE AverageCharges(_, _, _)
AverageCharges(st, i, acc) ==
    IF i > len(st) THEN acc
    ELSE LET left == st.matched_pairs[i][1]
             r == st.matched_pairs[i][2]
             avg_charge == (acc.q[left] + acc.q[r]) \div 2
         IN  IF acc.q[left] = acc.q[r] THEN AverageCharges(st, i + 1, acc)
             ELSE AverageCharges(st, i + 1,
                      [q |-> [acc.q EXCEPT ![left] = avg_charge, ![r] = avg_charge],
                       l |-> acc.l + (acc.q[left] - avg_charge),
                       r |-> acc.r + (acc.q[r] - avg_charge)])

\* redistribute_charges: [charge, err]; the second validate_charges runs on
\* the charges already changed
redistribute_charges(st) ==
    LET a == AverageCharges(st, 1, [q |-> charge, l |-> 0, r |-> 0])
        l_unmatched == get_disappearing_atoms(st)
        r_unmatched == get_appearing_atoms(st)
        l_delta_per_atom == IF Len(l_unmatched) # 0 THEN a.l \div Len(l_unmatched) ELSE 0
        r_delta_per_atom == IF Len(r_unmatched) # 0 THEN a.r \div Len(r_unmatched) ELSE 0
        q == [x \in DOMAIN charge |->
                 IF InSeq(x, l_unmatched) THEN a.q[x] + l_delta_per_atom
                 ELSE IF InSeq(x, r_unmatched) THEN a.q[x] + r_delta_per_atom
                 ELSE a.q[x]]
        whole(s) == SumSeq([i \in 1..Len(s) |-> q[s[i]]])
        off(w) == Min(w % 120000, 120000 - (w % 120000))
    IN  IF ~validate_charges THEN [charge |-> charge, err |-> "AssertionError"]
        ELSE IF \/ ~(off(whole(top1_nodes)) < 1800)
                \/ ~(off(whole(top2_nodes)) < 1800)
                \/ ~(Abs(whole(top1_nodes) - whole(top2_nodes)) < 1800)
             THEN [charge |-> q, err |-> "AssertionError"]
        ELSE [charge |-> q, err |-> ""]

\* assign_atoms_ids(id_start): [st, next]; internal_ids maps the atoms to
\* their ids (the id stored under a pair is the id of its atoms)
assign_atoms_ids(st, id_start) ==
    LET l_unmatched == SelectSeq(top1_nodes, LAMBDA a : ~contains_node(st, a))
        r_unmatched == SelectSeq(top2_nodes, LAMBDA a : ~contains_node(st, a))
        IndexIn(s, x) == CHOOSE i \in 1..Len(s) : s[i] = x
        PairIndex(x) == CHOOSE i \in 1..len(st) : x \in {st.matched_pairs[i][1], st.matched_pairs[i][2]}
        count == len(st) + Len(l_unmatched) + Len(r_unmatched)
        ids == [x \in top1 \cup top2 |->
                   IF x \in LeftNodes(st) \cup RightNodes(st) THEN id_start + PairIndex(x) - 1
                   ELSE IF InSeq(x, l_unmatched) THEN id_start + len(st) + IndexIn(l_unmatched, x) - 1
                   ELSE id_start + len(st) + Len(l_unmatched) + IndexIn(r_unmatched, x) - 1]
    IN  [st |-> [st EXCEPT !.has_ids = TRUE, !.internal_ids = ids,
                           !.unique_atom_count = @ + count],
         next |-> id_start + count]

\* find_pair_with_atom(atom_name): the first pair one of whose atoms has the name
find_pair_with_atom(st, atom_name) ==
    LET hits == {i \in 1..len(st) : name(st.matched_pairs[i][1]) = atom_name
                                    \/ name(st.matched_pairs[i][2]) = atom_name}
    IN  IF hits = {} THEN <<>>
        ELSE st.matched_pairs[CHOOSE i \in hits : \A j \in hits : i <= j]

\* sorted([a, b]) with the order appended
BondTriple(a, b, order) == IF a <= b THEN <<a, b, order>> ELSE <<b, a, order>>

\* get_dual_topology_bonds: [val, err].  A bond between two matched pairs is
\* stored with bond_type = (left order, right order) and bond_type[0] is the
\* left order; a bond of an unmatched atom has the order string as bond_type
\* and bond_type[0] is its first character
get_dual_topology_bonds(st, ignore_bond_types) ==
    LET id(a) == st.internal_ids[a]
        recorded == UNION {{<<p, x>> : x \in st.matched_pairs_bonds[p]} : p \in DOMAIN st.matched_pairs_bonds}
        matched == {BondTriple(id(e[1][1]), id(e[2][1][1]), e[2][2][1]) : e \in recorded}
        unmatched_atoms == get_disappearing_atoms(st) \o get_appearing_atoms(st)
        own(atom) == {IF find_pair_with_atom(st, name(b[1])) # <<>>
                      THEN BondTriple(id(atom), id(find_pair_with_atom(st, name(b[1]))[1]), <<Head(b[2])>>)
                      ELSE BondTriple(id(atom), id(b[1]), <<Head(b[2])>>) : b \in bonds(atom)}
    IN  IF ~st.has_ids THEN [val |-> {}, err |-> "AssertionError"]
        ELSE IF ~ignore_bond_types /\ \E e \in recorded : e[2][2][1] # e[2][2][2]
             THEN [val |-> {}, err |-> "Exception"]
        ELSE IF \E e \in recorded : e[2][1] \notin Pairs(st) THEN [val |-> {}, err |-> "AssertionError"]
        ELSE [val |-> matched \cup UNION {own(unmatched_atoms[i]) : i \in 1..Len(unmatched_atoms)},
              err |-> ""]

\* the loop of match_cccd_to_cdcc: [atype, err]; corrected_pairs is a set
RECURSIVE CcCdLoop(_, _, _, _)
\* the loop with the type of the neighbour's right atom taken from the left
\* atom of the pair, not of the neighbour
CcCdLoopLeftOfPair(st, i, types, corrected_pairs) ==
    IF i > len(st) THEN [atype |-> types, err |-> ""]
    ELSE LET pair == st.matched_pairs[i]
             cccd(p) == {types[p[1]], types[p[2]]} = {"CC", "CD"}
             neigh_cccd == {x[1] : x \in {y \in st.matched_pairs_bonds[pair] : cccd(y[1])}}
             b == CHOOSE x \in neigh_cccd : TRUE
         IN  IF ~cccd(pair) \/ pair \in corrected_pairs THEN CcCdLoop(st, i + 1, types, corrected_pairs)
             ELSE IF pair \notin DOMAIN st.matched_pairs_bonds THEN [atype |-> types, err |-> "KeyError"]
             ELSE IF Cardinality(neigh_cccd) # 1 THEN [atype |-> types, err |-> "Exception"]
             ELSE IF types[pair[2]] = types[pair[1]] /\ types[b[2]] = types[b[1]]
                  THEN CcCdLoop(st, i + 1, types, corrected_pairs)
             ELSE CcCdLoop(st, i + 1,
                           [types EXCEPT ![pair[2]] = types[pair[1]], ![b[2]] = types[pair[1]]],
                           corrected_pairs \cup {pair, b})

CcCdLoop(st, i, types, corrected_pairs) ==
    IF i > len(st) THEN [atype |-> types, err |-> ""]
    ELSE LET pair == st.matched_pairs[i]
             cccd(p) == {types[p[1]], types[p[2]]} = {"CC", "CD"}
             neigh_cccd == {x[1] : x \in {y \in st.matched_pairs_bonds[pair] : cccd(y[1])}}
             b == CHOOSE x \in neigh_cccd : TRUE
         IN  IF ~cccd(pair) \/ pair \in corrected_pairs THEN CcCdLoop(st, i + 1, types, corrected_pairs)
             ELSE IF pair \notin DOMAIN st.matched_pairs_bonds THEN [atype |-> types, err |-> "KeyError"]
             ELSE IF Cardinality(neigh_cccd) # 1 THEN [atype |-> types, err |-> "Exception"]
             ELSE IF types[pair[2]] = types[pair[1]] /\ types[b[2]] = types[b[1]]
                  THEN CcCdLoop(st, i + 1, types, corrected_pairs)
             ELSE CcCdLoop(st, i + 1,
                           [types EXCEPT ![pair[2]] = types[pair[1]], ![b[2]] = types[b[1]]],
                           corrected_pairs \cup {pair, b})

\* match_cccd_to_cdcc
match_cccd_to_cdcc(st, types) == CcCdLoop(st, 1, types, {})

-----------------------------------------------------------------------------
(* Specification SpecPipeline: one call of superimpose_topologies, a step  *)
(* for each starting pair of the search and for each block of the          *)
(* post-filters.  pc = "found" is the return of _superimpose_topologies,   *)
(* pc = "done" the return of superimpose_topologies.                       *)

\* the options the calls are made with
OptionSets ==
    {DefaultOptions,
     [DefaultOptions EXCEPT !.use_general_type = FALSE],
     [DefaultOptions EXCEPT !.use_only_element = TRUE],
     [DefaultOptions EXCEPT !.redistribute_charges_over_unmatched = FALSE],
     [DefaultOptions EXCEPT !.disjoint_components = FALSE],
     [DefaultOptions EXCEPT !.disjoint_components = FALSE, !.net_charge_filter = FALSE,
                            !.redistribute_charges_over_unmatched = FALSE],
     [DefaultOptions EXCEPT !.partial_rings_allowed = FALSE],
     [DefaultOptions EXCEPT !.starting_pairs_heuristics = FALSE],
     [DefaultOptions EXCEPT !.starting_pairs_heuristics = FALSE,
                            !.redistribute_charges_over_unmatched = FALSE],
     [DefaultOptions EXCEPT !.ignore_charges_completely = TRUE],
     [DefaultOptions EXCEPT !.use_charges = FALSE],
     [DefaultOptions EXCEPT !.net_charge_filter = FALSE],
     [DefaultOptions EXCEPT !.ignore_bond_types = FALSE],
     [DefaultOptions EXCEPT !.force_mismatch = <<<<Nm(chC, 1), NmR(chC, 1)>>>>]}

InitPipeline ==
    /\ mol \in PipelineMols
    /\ setOrder \in {"asc", "desc"}
    /\ atype = InitialTypes(mol)
    /\ charge = InitialCharges(mol)
    /\ suptops = <<>>
    /\ pc = "start"
    /\ seeds = <<>>
    /\ opts \in OptionSets
    /\ raised = ""
    /\ nops = 0

At(label) == pc = label /\ raised = ""

\* the objects a loop over the list has changed when it stops: res[i] is
\* [st, err] for suptops[i]; the first exception ends the loop
Each(res) ==
    LET bad == {i \in 1..Len(res) : res[i].err # ""}
        first == CHOOSE i \in bad : \A j \in bad : i <= j
    IN  IF bad = {} THEN [sts |-> [i \in 1..Len(res) |-> res[i].st], err |-> ""]
        ELSE [sts |-> [i \in 1..Len(res) |-> IF i <= first THEN res[i].st ELSE suptops[i]],
              err |-> res[first].err]

\* lines 2495-2502 and 3020-3025: the charges are validated, the names
\* checked and the starting pairs chosen
Start ==
    /\ At("start")
    /\ IF ~opts.ignore_charges_completely /\ ~validate_charges
       THEN raised' = "AssertionError" /\ UNCHANGED <<seeds, pc>>
       ELSE IF {name(a) : a \in top1} \cap {name(a) : a \in top2} # {}
       THEN raised' = "AssertionError" /\ UNCHANGED <<seeds, pc>>
       ELSE /\ seeds' = IF opts.starting_pairs_heuristics THEN get_starting_configurations
                        ELSE Product(top1_nodes, top2_nodes)
            /\ pc' = "search"
            /\ UNCHANGED raised
    /\ UNCHANGED <<mol, setOrder, atype, charge, suptops, opts, nops>>

\* one iteration of the loop of lines 3027-3076
SeedStep ==
    /\ At("search")
    /\ seeds # <<>>
    /\ Bind(SeedLoopBody(Head(seeds)[1], Head(seeds)[2], suptops), LAMBDA r :
           suptops' = r.sts /\ raised' = r.err)
    /\ seeds' = Tail(seeds)
    /\ UNCHANGED <<mol, setOrder, atype, charge, pc, opts, nops>>

\* lines 3079-3110 and 2517-2541: the end of the search
EndSearch ==
    /\ At("search")
    /\ seeds = <<>>
    /\ suptops' = RemoveHydrogenOnly(suptops)
    /\ IF suptops' = <<>> THEN raised' = "Exception" /\ UNCHANGED pc
       ELSE pc' = "found" /\ UNCHANGED raised
    /\ UNCHANGED <<mol, setOrder, atype, charge, seeds, opts, nops>>

\* lines 2551-2552: match_cccd_to_cdcc on each topology, on the atom types
\* the topologies before it left
RECURSIVE CcCdAll(_, _)
CcCdAll(i, types) ==
    IF i > Len(suptops) THEN [atype |-> types, err |-> ""]
    ELSE Bind(match_cccd_to_cdcc(suptops[i], types), LAMBDA r :
             IF r.err # "" THEN r ELSE CcCdAll(i + 1, r.atype))

MatchCcCd ==
    /\ At("found")
    /\ Bind(CcCdAll(1, atype), LAMBDA r : atype' = r.atype /\ raised' = r.err)
    /\ pc' = "types"
    /\ UNCHANGED <<mol, setOrder, charge, suptops, seeds, opts, nops>>

\* a block that changes the topologies only
Block(from, to, r) ==
    /\ At(from)
    /\ suptops' = r.sts
    /\ raised' = r.err
    /\ pc' = to
    /\ UNCHANGED <<mol, setOrder, atype, charge, seeds, opts, nops>>

Unchanged == [sts |-> suptops, err |-> ""]

\* lines 2556-2558
TypeFilter ==
    Block("types", "charges",
          IF ~opts.use_only_element
          THEN Each([i \in 1..Len(suptops) |->
                       matched_atom_types_are_the_same(suptops[i], Reverse(suptops[i].matched_pairs))])
          ELSE Unchanged)

\* lines 2575-2580
ChargeFilter ==
    Block("charges", "mismatch",
          IF opts.use_charges /\ ~opts.ignore_charges_completely
          THEN Each([i \in 1..Len(suptops) |-> refine_against_charges(suptops[i], pair_charge_atol)])
          ELSE Unchanged)

\* lines 2584-2589: SuperimposedTopology has no method contains_atomNamePair
\* (force_mismatch = None and force_mismatch = [] are both <<>>)
ForceMismatch ==
    Block("mismatch", "net",
          IF opts.force_mismatch # <<>> /\ suptops # <<>>
          THEN [sts |-> suptops, err |-> "AttributeError"]
          ELSE Unchanged)

\* lines 2591-2611: the topologies are visited from the last to the first;
\* one that loses its last pair leaves the list
Visited(res) ==
    LET bad == {i \in 1..Len(res) : res[i].err # ""}
        last == CHOOSE i \in bad : \A j \in bad : j <= i
        all == [i \in 1..Len(res) |->
                   IF bad = {} \/ i >= last THEN [st |-> res[i].st, gone |-> res[i].dropped]
                   ELSE [st |-> suptops[i], gone |-> FALSE]]
    IN  [left |-> SelectSeq(all, LAMBDA x : ~x.gone),
         err |-> IF bad = {} THEN "" ELSE res[last].err]

NetChargeAll ==
    Bind(Visited([i \in 1..Len(suptops) |-> NetChargeLoop(suptops[i])]), LAMBDA v :
        [sts |-> [i \in 1..Len(v.left) |-> v.left[i].st], err |-> v.err])

NetChargeFilter ==
    Block("net", "rings",
          IF opts.net_charge_filter /\ ~opts.ignore_charges_completely
          THEN NetChargeAll ELSE Unchanged)

\* lines 2613-2617
PartialRings ==
    Block("rings", "empty",
          IF ~opts.partial_rings_allowed
          THEN Each([i \in 1..Len(suptops) |-> enforce_no_partial_rings(suptops[i])])
          ELSE Unchanged)

\* lines 2620-2622
DropEmpty ==
    Block("empty", "disjoint",
          [sts |-> SelectSeq(suptops, LAMBDA st : len(st) # 0), err |-> ""])

\* lines 2624-2645
Longest(sts) ==
    LET max_len == CHOOSE n \in {len(sts[i]) : i \in 1..Len(sts)} :
                       \A i \in 1..Len(sts) : len(sts[i]) <= n
    IN  SelectSeq(sts, LAMBDA st : ~(len(st) < max_len))

OneComponent ==
    Bind(Each([i \in 1..Len(suptops) |-> largest_cc_survives(suptops[i])]), LAMBDA e :
        IF e.err # "" THEN e
        ELSE Bind(IF Len(e.sts) > 1 THEN <<Longest(e.sts)[1]>> ELSE e.sts, LAMBDA kept :
                 [sts |-> kept, err |-> IF Len(kept) = 1 THEN "" ELSE "AssertionError"]))

DisjointComponents ==
    Block("disjoint", "redistribute",
          IF ~opts.disjoint_components THEN OneComponent ELSE Unchanged)

\* lines 2647-2651
Redistribute ==
    /\ At("redistribute")
    /\ Bind(IF /\ opts.redistribute_charges_over_unmatched
                /\ ~opts.ignore_charges_completely
                /\ opts.disjoint_components
             THEN IF Len(suptops) > 1 THEN [charge |-> charge, err |-> "NotImplementedError"]
                  ELSE IF Len(suptops) = 0 THEN [charge |-> charge, err |-> "IndexError"]
                  ELSE redistribute_charges(suptops[1])
             ELSE [charge |-> charge, err |-> ""],
            LAMBDA r : charge' = r.charge /\ raised' = r.err)
    /\ pc' = "ids"
    /\ UNCHANGED <<mol, setOrder, atype, suptops, seeds, opts, nops>>

\* lines 2654-2658
RECURSIVE AssignAll(_, _)
AssignAll(sts, start_atom_id) ==
    IF sts = <<>> THEN <<>>
    ELSE Bind(assign_atoms_ids(Head(sts), start_atom_id), LAMBDA r :
             <<r.st>> \o AssignAll(Tail(sts), r.next + 1))

AssignIds ==
    Block("ids", "sort", [sts |-> AssignAll(suptops, 1), err |-> ""])

\* suptops.sort(key=lambda st: st.rmsd()), a stable sort
RECURSIVE SortByRmsd(_)
SortByRmsd(s) ==
    IF s = <<>> THEN <<>>
    ELSE LET r == SortByRmsd(SubSeq(s, 1, Len(s) - 1))
             x == s[Len(s)]
             k == Cardinality({i \in 1..Len(r) : ~RmsdLess(x, r[i])})
         IN  SubSeq(r, 1, k) \o <<x>> \o SubSeq(r, k + 1, Len(r))

\* lines 2661-2686
Finish ==
    Block("sort", "done", [sts |-> SortByRmsd(suptops), err |-> ""])

NextPipeline ==
    \/ Start
    \/ SeedStep
    \/ EndSearch
    \/ MatchCcCd
    \/ TypeFilter
    \/ ChargeFilter
    \/ ForceMismatch
    \/ NetChargeFilter
    \/ PartialRings
    \/ DropEmpty
    \/ DisjointComponents
    \/ Redistribute
    \/ AssignIds
    \/ Finish

SpecPipeline == InitPipeline /\ [][NextPipeline]_vars

-----------------------------------------------------------------------------
(* Properties.                                                             *)

\* whether two pairs are bonded on both sides
BondedLeft(p, q) == bound_to(p[1], q[1])
BondedRight(p, q) == bound_to(p[2], q[2])

\* an object as _overlay returned it
FromOverlay(st) == st.hist = {"overlay"}

Induced(st) ==
    \A p \in Pairs(st) : \A q \in Pairs(st) : p # q => (BondedLeft(p, q) <=> BondedRight(p, q))

Bijective(st) ==
    \A i \in 1..len(st) : \A j \in 1..len(st) :
        i # j => /\ st.matched_pairs[i][1] # st.matched_pairs[j][1]
                 /\ st.matched_pairs[i][2] # st.matched_pairs[j][2]

Coherent(st) ==
    /\ DOMAIN st.matched_pairs_bonds = Pairs(st)
    /\ \A p \in Pairs(st) :
          {x[1] : x \in st.matched_pairs_bonds[p]} =
          {q \in Pairs(st) : q # p /\ BondedLeft(p, q) /\ BondedRight(p, q)}

NodesAgree(st) ==
    /\ st.nodes = LeftNodes(st) \cup RightNodes(st)
    /\ Cardinality(st.nodes) = 2 * len(st)

\* the pairs the last merge into st added
LastMerged(st) ==
    IF st.nodes_added_log # <<>> /\ st.nodes_added_log[Len(st.nodes_added_log)][1] = "merged with"
    THEN st.nodes_added_log[Len(st.nodes_added_log)][2]
    ELSE <<>>

\* C1: in every topology _overlay returns for a starting pair and an empty
\* topology, two matched pairs are bonded in the left ligand if and only if
\* they are bonded in the right ligand (an isomorphism of induced subgraphs).
C1_InducedIsomorphism ==
    \A i \in 1..Len(suptops) : FromOverlay(suptops[i]) => Induced(suptops[i])

\* C2: as long as every call succeeded (add_node_pair, link_with_parent,
\* link_pairs, remove_node_pair, merge, copy, _overlay), no atom occurs in two
\* pairs of matched_pairs of any topology.
C2_Bijection ==
    raised = "" => \A i \in 1..Len(suptops) : Bijective(suptops[i])

\* a successful merge added pairs of another topology to one of _overlay
C2_Witness ==
    /\ raised = ""
    /\ \E i \in 1..Len(suptops) :
          /\ {"overlay", "merge"} \subseteq suptops[i].hist
          /\ Len(LastMerged(suptops[i])) >= 1
          /\ len(suptops[i]) >= 3

\* C3: in every topology _overlay returned, also after later successful
\* merge and remove_node_pair calls, matched_pairs_bonds has exactly the
\* matched pairs as keys and records q under p if and only if p and q are
\* bonded in both ligands.
C3_BondCoherence ==
    raised = "" =>
        \A i \in 1..Len(suptops) :
            suptops[i].hist \subseteq {"overlay", "merge", "remove"} => Coherent(suptops[i])

\* C4: every topology _overlay returns has as many independent cycles among
\* its left atoms as among its right atoms.
C4_CycleParity ==
    \A i \in 1..Len(suptops) : FromOverlay(suptops[i]) => same_circle_number(suptops[i])

\* _overlay returned a topology that has a ring on both sides
C4_Witness ==
    \E i \in 1..Len(suptops) :
        /\ FromOverlay(suptops[i])
        /\ get_circle_number(suptops[i])[1] >= 1
        /\ get_circle_number(suptops[i])[2] >= 1

\* C5: as long as every call succeeded, nodes of every topology (copies
\* included) is the set of the atoms of its matched pairs, twice as many as
\* the pairs.
C5_NodesMatchPairs ==
    raised = "" => \A i \in 1..Len(suptops) : NodesAgree(suptops[i])

\* a copy of a topology lost a pair by remove_node_pair and still has pairs
C5_Witness ==
    /\ raised = ""
    /\ \E i \in 1..Len(suptops) :
          /\ {"copy", "remove"} \subseteq suptops[i].hist
          /\ len(suptops[i]) >= 1
          /\ suptops[i].nodes_added_log[Len(suptops[i].nodes_added_log)][1] = "Removed"

\* the pairs the _removed_* logs of st hold
Logged(st) ==
    {x[1] : x \in Range(st.removed_pairs_with_charge_difference)}
    \cup {x[1] : x \in Range(st.removed_due_to_net_charge)}
    \cup Range(st.removed_because_disjointed_cc)
    \cup Range(st.removed_because_unmatched_rings)
    \cup {x[1] : x \in Range(st.removed_because_diff_bonds)}
    \cup {x[2] : x \in Range(st.removed_because_diff_bonds)}

\* C6: every pair a post-filter of superimpose_topologies removed from a
\* topology of the list is recorded in one of the _removed_* logs of that
\* topology.
C6_NoSilentDrops ==
    \A i \in 1..Len(suptops) : suptops[i].filtered \subseteq Logged(suptops[i])

\* |l.charge - r.charge| of a pair
ChargeDifference(pair) == Abs(charge[pair[1]] - charge[pair[2]])

\* the charge filter of lines 2575-2580 has just run
ChargeFilterRan ==
    At("mismatch") /\ opts.use_charges /\ ~opts.ignore_charges_completely

\* C7: after refine_against_charges(atol) every pair still matched has
\* |l.charge - r.charge| <= atol, and every entry of
\* _removed_pairs_with_charge_difference is a removed pair with its |dq|,
\* which is greater than atol.
C7_RemovedIffOverTolerance ==
    ChargeFilterRan =>
        \A i \in 1..Len(suptops) :
            /\ \A p \in Pairs(suptops[i]) : ChargeDifference(p) <= pair_charge_atol
            /\ \A e \in Range(suptops[i].removed_pairs_with_charge_difference) :
                  /\ e[1] \notin Pairs(suptops[i])
                  /\ e[2] = ChargeDifference(e[1])
                  /\ e[2] > pair_charge_atol

\* redistribute_charges of lines 2647-2651 has just returned
RedistributeRan ==
    /\ At("ids")
    /\ opts.redistribute_charges_over_unmatched
    /\ ~opts.ignore_charges_completely
    /\ opts.disjoint_components
    /\ Len(suptops) = 1

\* the sum of q over the atoms of the list s
Total(q, s) == SumSeq([i \in 1..Len(s) |-> q[s[i]]])

\* C8: after redistribute_charges the two atoms of every matched pair have
\* the same charge, and the charges of the left ligand and of the right
\* ligand each add up to what they added up to before the call.
C8_TotalChargePreserved ==
    RedistributeRan =>
        /\ \A p \in Pairs(suptops[1]) : charge[p[1]] = charge[p[2]]
        /\ Total(charge, top1_nodes) = Total(InitialCharges(mol), top1_nodes)
        /\ Total(charge, top2_nodes) = Total(InitialCharges(mol), top2_nodes)

\* the bonds of both ligands over the generated ids of st
BondsOverIds(st) ==
    {BondTriple(st.internal_ids[b[1]], st.internal_ids[b[2]], b[3]) : b \in M.LB \cup M.RB}

\* C9: once the ids are assigned, get_dual_topology_bonds returns exactly
\* the triples (lower id, higher id, order) of the bonds of the two ligands.
C9_DualTopologyBonds ==
    At("done") =>
        \A i \in 1..Len(suptops) :
            get_dual_topology_bonds(suptops[i], opts.ignore_bond_types).err = "" =>
                get_dual_topology_bonds(suptops[i], opts.ignore_bond_types).val
                    = BondsOverIds(suptops[i])

\* C10: the list _superimpose_topologies returns and the list
\* superimpose_topologies returns hold no two topologies that are mirrors
\* of each other.
C10_NoMirrorsReturned ==
    (At("found") \/ At("done")) =>
        \A i \in 1..Len(suptops) : \A j \in 1..Len(suptops) :
            i # j => ~is_mirror_of(suptops[i], suptops[j])

\* C11: in the list _superimpose_topologies returns and in the list
\* superimpose_topologies returns, no topology with fewer pairs than another
\* has all its pairs (or all the pairs of one of its mirrors) in the other.
C11_NoSubgraphReturned ==
    (At("found") \/ At("done")) =>
        \A i \in 1..Len(suptops) : \A j \in 1..Len(suptops) :
            i # j => ~is_subgraph_of(suptops[i], suptops[j])

\* a mirror entry that has the atoms of st in other pairs
TrueMirror(st, m) ==
    /\ ~IsSelfRef(m)
    /\ LeftNodes(m) \cup RightNodes(m) = LeftNodes(st) \cup RightNodes(st)
    /\ Pairs(m) # Pairs(st)

\* C12: every entry of the mirrors list of a topology in the list
\* _superimpose_topologies returns is another object, with the same atoms
\* as the topology and a different set of pairs.
C12_MirrorsAreMirrors ==
    At("found") =>
        \A i \in 1..Len(suptops) : \A k \in 1..Len(suptops[i].mirrors) :
            TrueMirror(suptops[i], suptops[i].mirrors[k])

\* the search has used every starting pair (or had none) and no topology
\* is left to return
NothingFound ==
    At("search") /\ seeds = <<>> /\ RemoveHydrogenOnly(suptops) = <<>>

\* C13: when no starting pair gave a topology, the step that ends the search
\* raises nothing and superimpose_topologies goes on to return the empty
\* list.
C13_EmptyResultReturned ==
    [][NothingFound => (raised' = "" /\ suptops' = <<>>)]_vars

\* the pairs of st that force_mismatch does not name
NotForced(st) ==
    {p \in Pairs(st) : <<name(p[1]), name(p[2])>> \notin Range(opts.force_mismatch)}

\* C14: with a force_mismatch list the step of lines 2584-2589 raises
\* nothing and leaves in every topology exactly the pairs the list does not
\* name.
C14_ForceMismatchApplied ==
    [][(At("mismatch") /\ opts.force_mismatch # <<>>) =>
          /\ raised' = ""
          /\ Len(suptops') = Len(suptops)
          /\ \A i \in 1..Len(suptops) : Pairs(suptops'[i]) = NotForced(suptops[i])]_vars

\* control passes from the net-charge filter to line 2613
LeavesNetChargeFilter ==
    /\ At("net")
    /\ pc' = "rings"
    /\ UNCHANGED <<mol, setOrder, atype, charge, suptops, seeds, opts, raised, nops>>

\* one call of superimpose_topologies that is not stopped at the net-charge
\* filter: the interpreter goes on with lines 2591-2611, so a run does not
\* stay in front of them for ever (the step a run then takes is
\* NetChargeFilter, the only step of NextPipeline at that point)
SpecPipelineFair == SpecPipeline /\ WF_vars(LeavesNetChargeFilter)

\* the net-charge filter of lines 2591-2611 has just run
NetChargeFilterRan ==
    At("rings") /\ opts.net_charge_filter /\ ~opts.ignore_charges_completely

\* entry k of _removed_due_to_net_charge was the pair of the largest |dq|
\* among the pairs st had when it was removed
WorstAtThatMoment(st, k) ==
    LET log == st.removed_due_to_net_charge
        then == Pairs(st) \cup {log[j][1] : j \in k..Len(log)}
    IN  /\ log[k][2] = ChargeDifference(log[k][1])
        /\ \A p \in then : ChargeDifference(p) <= log[k][2]

\* what the net-charge filter leaves
NetChargeSettled ==
    \A i \in 1..Len(suptops) :
        /\ Abs(get_net_charge(suptops[i])) <= net_charge_threshold
        /\ suptops[i].removed_due_to_net_charge # <<>> => len(suptops[i]) > 0
        /\ \A k \in 1..Len(suptops[i].removed_due_to_net_charge) :
              WorstAtThatMoment(suptops[i], k)

\* C15: the net-charge filter comes to an end; after it every topology of
\* the list has a net charge difference of at most net_charge_threshold,
\* each pair it removed had the largest |dq| of the topology at that moment,
\* and no topology that lost its last pair to it is in the list.
C15_NetChargeFilter ==
    /\ [](NetChargeFilterRan => NetChargeSettled)
    /\ (At("net") ~> (pc = "rings"))

\* the filter removed a pair from a topology that stays in the list with a
\* pair of another, smaller charge difference
C15_Witness ==
    /\ NetChargeFilterRan
    /\ \E i \in 1..Len(suptops) :
          /\ suptops[i].removed_due_to_net_charge # <<>>
          /\ \E p \in Pairs(suptops[i]) :
                ChargeDifference(p) \notin {0, suptops[i].removed_due_to_net_charge[1][2]}

\* the call _overlay(C1, C11, None, None, (None, None), SuperimposedTopology())
\* on the two C-N(-O)(-O) ligands has just returned
NitroSeedReturned == mol = MolNitro /\ OverlaySeed(1, 11)

\* the assignment of st with the two oxygens exchanged
OxygensSwapped(st) == {<<1, 11>>, <<2, 12>>, <<3, 14>>, <<4, 13>>}

TwoFold(st) ==
    /\ len(st) = 4
    /\ LeftNodes(st) \cup RightNodes(st) = top1 \cup top2
    /\ Len(st.mirrors) = 1
    /\ ~IsSelfRef(st.mirrors[1])
    /\ Pairs(st.mirrors[1]) = OxygensSwapped(st)
    /\ Pairs(st) # OxygensSwapped(st)
    /\ ~RmsdLess(st.mirrors[1], st)

RingWithMirror(st, n1, n2) ==
    /\ len(st) = 3
    /\ contains(st, <<n1, n2>>)
    /\ get_circle_number(st) = <<1, 1>>
    /\ Len(st.mirrors) = 1
    /\ TrueMirror(st, st.mirrors[1])
    /\ len(st.mirrors[1]) = 3
    /\ contains(st.mirrors[1], <<n1, n2>>)

HydrogenPair(p) == Head(name(p[1])) = chH

\* the matched hydrogen pairs of st bonded, on both sides, to a pair that
\* refine_against_charges removed
Dangling(st) ==
    {h \in Pairs(st) :
        /\ HydrogenPair(h)
        /\ \E e \in Range(st.removed_pairs_with_charge_difference) :
              ~HydrogenPair(e[1]) /\ BondedLeft(h, e[1]) /\ BondedRight(h, e[1])}

\* C18: after refine_against_charges(atol) has removed pairs of heavy atoms
\* for their charges, no hydrogen pair that was bonded to a removed pair is
\* still matched.
C18_NoDanglingHydrogen ==
    ChargeFilterRan => \A i \in 1..Len(suptops) : Dangling(suptops[i]) = {}

\* the two atoms differ in what _overlay compares first: the element, or the
\* type when use_element_type is False
Disagree(n1, n2) ==
    IF opts.use_general_type THEN ~same_element(n1, n2) ELSE ~same_type(n1, n2)

\* _overlay(n1, n2) has returned for two atoms that disagree
MismatchedSeedReturned(n1, n2) == Disagree(n1, n2) /\ OverlaySeed(n1, n2)

\* C19: _overlay started on two atoms that disagree in element (or in type,
\* when the exact types are compared) returns a topology, and the topology
\* has no pair.
C19_MismatchedSeedReturnsEmpty ==
    [][\A n1 \in top1, n2 \in top2 :
          MismatchedSeedReturned(n1, n2) =>
              /\ raised' = ""
              /\ Len(suptops') = Len(suptops) + 1
              /\ len(suptops'[Len(suptops')]) = 0]_vars

-----------------------------------------------------------------------------
(* Specification SpecEither: a run is either a sequence of calls on the    *)
(* objects _overlay returned or one call of superimpose_topologies.        *)
InitEither == Init \/ InitPipeline

NextEither == Next \/ NextPipeline

SpecEither == InitEither /\ [][NextEither]_vars

\* the left atom names of matched_pairs never decrease along the list
SortedByLeftName(st) ==
    \A i \in 1..(len(st) - 1) :
        ~StrLess(name(st.matched_pairs[i + 1][1]), name(st.matched_pairs[i][1]))

\* st, its mirrors and its alternative mappings
WithAlternatives(st) ==
    {st} \cup {Deref(st, st.mirrors[k]) : k \in 1..Len(st.mirrors)}
         \cup Range(st.alternative_mappings)

\* C20: in every topology, whatever calls of add_node_pair,
\* remove_node_pair, merge, copy and the filters of superimpose_topologies
\* made it, the left atom names of matched_pairs are in non-decreasing order.
C20_SortedByLeftName ==
    \A i \in 1..Len(suptops) : \A st \in WithAlternatives(suptops[i]) : SortedByLeftName(st)

\* a call of add_node_pair has put its pair before the last place of a list
\* of three pairs or more
C20_Witness ==
    /\ pc = "api" /\ raised = ""
    /\ \E i \in 1..Len(suptops) :
          /\ "add" \in suptops[i].hist
          /\ len(suptops[i]) >= 3
          /\ Bind(suptops[i].nodes_added_log[Len(suptops[i].nodes_added_log)], LAMBDA e :
                 e[1] = "Added" /\ e[2] # suptops[i].matched_pairs[len(suptops[i])])

\* the pairs of unmatched atoms next to a matched pair (l, r) that pass the
\* checks _overlay(a, b, l, r, bond_types, st) makes before it adds a pair
Extensions(st) ==
    {x \in (top1 \ st.nodes) \X (top2 \ st.nodes) :
        /\ ~Disagree(x[1], x[2])
        /\ \E p \in Pairs(st) :
              /\ bound_to(x[1], p[1]) /\ bound_to(x[2], p[2])
              /\ CycleSafe(x[1], x[2], p[1], p[2], st)
        /\ ~cycle_spans_multiple_cycles(st)}

\* C21: a topology _overlay returns for a starting pair cannot be extended:
\* no two unmatched atoms of one element, bonded to the two atoms of a
\* matched pair, pass the cycle checks of _overlay.
C21_Maximal ==
    \A i \in 1..Len(suptops) : FromOverlay(suptops[i]) => Extensions(suptops[i]) = {}

\* C22: no topology _overlay returns has a cycle of one ligand matched with
\* atoms of two cycles of the other ligand (cycle_spans_multiple_cycles is
\* False on it, the pair added last included).
C22_NoCycleSpansCycles ==
    \A i \in 1..Len(suptops) : FromOverlay(suptops[i]) => ~cycle_spans_multiple_cycles(suptops[i])

\* the atoms the atoms of c are matched with in st
ImageOf(st, c) == {p[IF IsLeft(Head(IterAtoms(c))) THEN 2 ELSE 1] :
                     p \in {q \in Pairs(st) : q[1] \in c \/ q[2] \in c}}

\* every cycle of the two ligands of at most MAX_CIRCLE_SIZE atoms is
\* matched as a whole with a cycle of its size, or not matched at all
RingsWhole(st) ==
    \A c \in SmallCircles(top1) \cup SmallCircles(top2) :
        \/ c \cap st.nodes = {}
        \/ /\ c \subseteq st.nodes
           /\ ImageOf(st, c) \in SmallCircles(top1) \cup SmallCircles(top2)
           /\ Cardinality(ImageOf(st, c)) = Cardinality(c)

\* C23: enforce_no_partial_rings ends without an exception on every
\* topology the search produced; afterwards every cycle of at most 7 atoms
\* of either ligand is matched as a whole with a cycle of the same size or
\* has no matched atom, and the pairs removed are the pairs appended to
\* _removed_because_unmatched_rings.
C23_NoPartialRings ==
    [][(At("rings") /\ ~opts.partial_rings_allowed) =>
          /\ raised' = ""
          /\ Len(suptops') = Len(suptops)
          /\ \A i \in 1..Len(suptops) :
                /\ RingsWhole(suptops'[i])
                /\ Pairs(suptops[i]) \ Pairs(suptops'[i]) =
                      Range(suptops'[i].removed_because_unmatched_rings)]_vars

\* two topologies that share atoms, neither holding all pairs of the other
PartialOverlap(a, b) ==
    contains_any_node_from(a, b) /\ ~contains_all(a, b) /\ ~contains_all(b, a)

\* C24: the list of accepted topologies of the seed loop never holds two
\* topologies that partially overlap: of a candidate and an accepted
\* topology that share atoms only one is kept.
C24_OneOfPartialOverlap ==
    (At("search") \/ At("found")) =>
        \A i \in 1..Len(suptops) : \A j \in 1..Len(suptops) :
            i # j => ~PartialOverlap(suptops[i], suptops[j])


\* what largest_cc_survives has to leave of st: one component of the pair
\* graph of st, none larger, the rest removed and logged
OneComponentLeft(st, r) ==
    /\ r.err = ""
    /\ \E p \in Pairs(st) : Pairs(r.st) = PairReach(st, {p})
    /\ \A p \in Pairs(r.st) : PairReach(r.st, {p}) = Pairs(r.st)
    /\ \A q \in Pairs(st) : Cardinality(PairReach(st, {q})) <= len(r.st)
    /\ Len(r.st.removed_because_disjointed_cc) =
           Len(st.removed_because_disjointed_cc) + len(st) - len(r.st)
    /\ Pairs(st) \ Pairs(r.st) =
           {r.st.removed_because_disjointed_cc[k] :
               k \in Len(st.removed_because_disjointed_cc) + 1 ..
                     Len(r.st.removed_because_disjointed_cc)}

\* C25: when the pipeline calls largest_cc_survives on its suptops (disjoint
\* components not allowed), every call succeeds and leaves exactly one
\* connected component of the pair graph the ST had before the call: no
\* other component was larger, and the pairs of every other component are
\* removed and appended to _removed_because_disjointed_cc; the list the step
\* leaves holds only such results
C25_LargestComponentSurvives ==
    [][(At("disjoint") /\ ~opts.disjoint_components) =>
          /\ \A i \in 1..Len(suptops) :
                OneComponentLeft(suptops[i], largest_cc_survives(suptops[i]))
          /\ \A j \in 1..Len(suptops') : \E i \in 1..Len(suptops) :
                suptops'[j] = largest_cc_survives(suptops[i]).st]_vars

\* a step of the disjoint-component filter that removed a component
C25_Witness ==
    /\ pc = "redistribute" /\ raised = "" /\ ~opts.disjoint_components
    /\ Len(suptops) = 1
    /\ suptops[1].removed_because_disjointed_cc # <<>>
    /\ len(suptops[1]) > 1



\* the four containers of an ST that add_node_pair writes
Containers(st) == <<st.matched_pairs, st.nodes, st.nodes_added_log, st.matched_pairs_bonds>>

\* C26: a call add_node_pair((l, r)) that fails because l or r is already in
\* nodes, or because the pair is already in matched_pairs, leaves
\* matched_pairs, nodes, nodes_added_log and matched_pairs_bonds exactly as
\* they were before the call
C26_RejectedAddHasNoEffect ==
    [][\A i \in 1..Len(suptops) : \A l \in top1, r \in top2 :
          (/\ AddNodePair(i, l, r)
           /\ \/ l \in suptops[i].nodes \/ r \in suptops[i].nodes
              \/ InSeq(<<l, r>>, suptops[i].matched_pairs)
           /\ raised' # "")
          => Containers(suptops'[i]) = Containers(suptops[i])]_vars


\* the condition under which charges are to be redistributed: the option is
\* set, charges are not ignored and disjoint components are not allowed
RedistributionDue ==
    /\ opts.redistribute_charges_over_unmatched
    /\ ~opts.ignore_charges_completely
    /\ ~opts.disjoint_components

\* C27: the step of superimpose_topologies after the disjoint-component
\* filter applies redistribute_charges exactly when
\* redistribute_charges_over_unmatched is set, charges are not ignored and
\* disjoint_components is false, and then to the single remaining ST; in
\* every other case, so whenever disjoint components are allowed, no charge
\* is modified and the step does not fail, however many STs were found
C27_RedistributeOnlyWithoutDisjoint ==
    [][At("redistribute") =>
          IF RedistributionDue
          THEN /\ Len(suptops) = 1
               /\ charge' = redistribute_charges(suptops[1]).charge
          ELSE /\ charge' = charge
               /\ raised' = ""]_vars


\* C28: get_starting_configurations gives the same starting pairs for the two
\* ligands whatever the order in which the set of common atom types is
\* iterated: types of equal rarity do not change which type classes are
\* emitted before the 20% cut-off
C28_SeedsIndependentOfSetOrder ==
    (pc = "search" /\ opts.starting_pairs_heuristics) =>
        /\ Range(seeds) \subseteq Range(StartingConfigurations("asc"))
        /\ Range(StartingConfigurations("asc")) = Range(StartingConfigurations("desc"))


\* a second match_cccd_to_cdcc on st changes no atom type the first left
CcCdIdempotent(st) ==
    Bind(match_cccd_to_cdcc(st, atype), LAMBDA once :
        once.err = "" => match_cccd_to_cdcc(st, once.atype) = once)

\* a second matched_atom_types_are_the_same on st removes nothing
SameTypesIdempotent(st) ==
    Bind(matched_atom_types_are_the_same(st, Reverse(st.matched_pairs)), LAMBDA once :
        once.err = "" =>
            matched_atom_types_are_the_same(once.st, Reverse(once.st.matched_pairs)) = once)

\* C29: the type filters are idempotent on every ST they are called on:
\* match_cccd_to_cdcc applied twice gives the atom types of one application
\* (it never touches the matched pairs), and matched_atom_types_are_the_same
\* applied twice removes nothing that the first application did not remove
C29_TypeFiltersIdempotent ==
    /\ At("found") => \A i \in 1..Len(suptops) : CcCdIdempotent(suptops[i])
    /\ (At("types") /\ ~opts.use_only_element) =>
           \A i \in 1..Len(suptops) : SameTypesIdempotent(suptops[i])

\* both filters have acted: match_cccd_to_cdcc has rewritten a type and
\* matched_atom_types_are_the_same has removed a pair
C29_Witness ==
    /\ pc = "charges" /\ raised = ""
    /\ atype # InitialTypes(mol)
    /\ \E i \in 1..Len(suptops) : "remove" \in suptops[i].hist


\* a call of add_node_pair, remove_node_pair, link_with_parent or link_pairs
\* on object i
WritesTo(i) ==
    \/ \E l \in top1, r \in top2 : AddNodePair(i, l, r)
    \/ \E pair \in Pairs(suptops[i]) : RemoveNodePair(i, pair)
    \/ \E pair, parent \in Pairs(suptops[i]) : LinkWithParent(i, pair, parent)
    \/ \E pair, other \in Pairs(suptops[i]) : LinkPairs(i, pair, other)

\* C30: branches do not interfere: once an object was made by copy.copy, a
\* call of add_node_pair, link_with_parent, link_pairs or remove_node_pair on
\* the copy leaves matched_pairs, nodes, nodes_added_log and
\* matched_pairs_bonds (every bond set in it) of the original as they were,
\* and a call on the original leaves those of the copy as they were
C30_BranchesDoNotInterfere ==
    [][\A i, j \in 1..Len(suptops) :
          (/\ i # j
           /\ "copy" \in suptops[i].hist \cup suptops[j].hist
           /\ WritesTo(i))
          => Containers(suptops'[j]) = Containers(suptops[j])]_vars

\* an object and its copy, one of which was written after the copy was made
\* and has a bond set the other does not have
C30_Witness ==
    /\ raised = "" /\ Len(suptops) = 2
    /\ "copy" \in suptops[2].hist
    /\ suptops[1].matched_pairs_bonds # suptops[2].matched_pairs_bonds

=========================================================================
